---- MODULE Spec2Model ----
(***************************************************************************)
(* A model of the trip-planning and route-geometry layer of p2p-live:      *)
(* geo primitives and the journey composer (utils/geo, utils/journey),     *)
(* the address search effect of PlanTripView, the recent-searches store    *)
(* and the route interpolator.                                             *)
(*                                                                         *)
(* Numbers.  Coordinates are degrees times 10^4 (the data files give four  *)
(* decimals), distances are millimetres, durations are minutes.            *)
(***************************************************************************)
EXTENDS Integers, Sequences, FiniteSets, TLC

VARIABLES
    \* ---- journey composer / simple PlanTripView ----
    stops,          \* the STOPS list calculateJourney reads
    userLocation,   \* App state: the rider's position
    journey,        \* PlanTripView state: the displayed journey (or Null)
    activeJourney,  \* App state set through onPlanRoute (or Null)
    loadingLoc,     \* App state: geolocation has not answered yet
    alertMsg,       \* the text of the last alert() ("" when none)
    lastCall,       \* the last calculateJourney call: its arguments and outcome
    \* ---- PlanTripView address search (geocode effect) ----
    query,          \* the search box text, a sequence of characters
    addressResults, \* the GeocodeResult list shown
    geocodeLoading, \* the "searching" flag
    geocodeTimer,   \* the effect's pending setTimeout (or Null)
    effectCtl,      \* the AbortController of the live effect (0: none)
    fetches,        \* geocode requests in flight
    nextCtl,        \* next AbortController identity
    lastSettle,     \* the last geocode request settled: the request, its outcome
                    \* and the results shown before (or Null)
    \* ---- storage/recentSearches ----
    storage,        \* localStorage[STORAGE_KEY]: the stored list, <<>> when the key is absent
    clock,          \* Date.now(), in days
    lastOp,         \* the last call on the store: its name, time, argument,
                    \* the storage before it (add) or the list returned (get)
    \* ---- utils/routeInterpolation ----
    cache,          \* the module's Map: key -> { cumul, coords }
    interpolator,   \* the RouteInterpolator last returned (or Null)
    lastPoint,      \* the last pointAt call: its argument and result (or Null)
    requested,      \* the coords of the last createRouteInterpolator call
    \* ---- utils/journeyToMapSources and the map's source update ----
    mapSources,     \* the last journeyToMapSources call: its argument and result (or Null)
    sourceData,     \* what the journey sources of the map were last given by setData
    lastSlice,      \* the last sliceRouteLine call: its arguments and result (or Null)
    \* ---- utils/geo called on its own ----
    lastGeo,        \* the last call of findNearestStop or getWalkTimeMinutes
    \* ---- PlanTripView with computeMultimodalRoute ----
    routingLoading, \* the "finding best route" flag
    routeRequest,   \* the computeMultimodalRoute call awaited (or Null)
    routeSettled,   \* how the last route request settled (Null before, and while one is awaited)
    \* ---- MapboxMap: route geometries and the bus animation ----
    routeFetches,   \* the routes whose /api/mapbox/route request is in flight
    routeGeoms,     \* routeGeomsRef.current: per route, the coordinates fetched
    interpolators,  \* interpolatorsRef.current: per route, an interpolator or Null
    busDistMeters,  \* busDistMetersRef.current: vehicle id -> distance along its route
    positions,      \* the bus positions last given to the buses source
    lastTick,       \* the last tick: its time step, which routes had an
                    \* interpolator, and how many ticks ran (Null before the first)
    mounted,        \* the MapboxMap component is mounted
    timers,         \* the ids of the setInterval timers that are active
    effectTimer,    \* the id the cleanup of the live animation effect clears (0: none)
    nextTimer,      \* the id the next setInterval returns
    \* ---- MapboxMap and App: the stops drawn and what is selected ----
    mapReady,       \* the map fired 'load'
    selectedStop,   \* the id of App's selectedStop, "" for null
    selectedBus,    \* the id of App's selectedBus, "" for null
    stopSources,    \* the features last given to the two stop sources
    \* ---- PlanTripView: the result view ----
    resultView,     \* the header last rendered for a journey (or Null)
    \* ---- the API server ----
    serverClock,    \* Date.now() of the server, in milliseconds
    routeCache,     \* routeCache: per route, { payload, at } or Null
    serverRequests, \* the requests received, each with its state and its responses
    lastFetched,    \* per route, the payload and time of the last upstream success
    mapboxToken,    \* MAPBOX_TOKEN is set in the environment
    summaryCache,   \* summaryCache with cacheKey: { key, generatedAt } or Null
    walkCache,      \* walkCache for the one pair of points asked: { at } or Null
    \* ---- MapboxMap: flying to the rider ----
    flyVersion,     \* which of the two versions of MapboxMap is mounted
    mapLoaded,      \* mapReady of that component
    userLocationResolved, \* the prop: geolocation has settled
    flyLocation,    \* the userLocation prop
    enable3D,       \* the enable3D prop
    flownToUser,    \* flownToUserRef / hasFlownToUserRef
    flights         \* the flyTo calls the effect made

journeyVars == <<stops, userLocation, loadingLoc, journey, activeJourney, alertMsg, lastCall>>

geocodeVars == <<query, addressResults, geocodeLoading, geocodeTimer, effectCtl, fetches, nextCtl, lastSettle>>

recentVars == <<storage, clock, lastOp>>

interpVars == <<cache, interpolator, lastPoint, requested>>

mapVars == <<mapSources, sourceData, lastSlice>>

geoVars == <<lastGeo>>

routeVars == <<routingLoading, routeRequest, routeSettled>>

stopVars == <<mapReady, selectedStop, selectedBus, stopSources>>

busVars == <<routeFetches, routeGeoms, interpolators, busDistMeters, positions, lastTick,
            mounted, timers, effectTimer, nextTimer>>

viewVars == <<resultView>>

serverVars == <<serverClock, routeCache, serverRequests, lastFetched,
               mapboxToken, summaryCache, walkCache>>

flyVars == <<flyVersion, mapLoaded, userLocationResolved, flyLocation, enable3D, flownToUser, flights>>

\* what the actions of one part of the program leave alone
outsideJourney == <<geocodeVars, recentVars, interpVars, mapVars, geoVars, routeVars, busVars, stopVars, viewVars, serverVars, flyVars>>
outsideGeocode == <<recentVars, interpVars, mapVars, geoVars, routeVars, busVars, stopVars, viewVars, serverVars, flyVars>>
outsideRecent  == <<journeyVars, geocodeVars, interpVars, mapVars, geoVars, routeVars, busVars, stopVars, viewVars, serverVars, flyVars>>
outsideInterp  == <<journeyVars, geocodeVars, recentVars, mapVars, geoVars, routeVars, busVars, stopVars, viewVars, serverVars, flyVars>>
outsideMap     == <<journeyVars, geocodeVars, recentVars, interpVars, geoVars, routeVars, busVars, stopVars, viewVars, serverVars, flyVars>>
outsideGeo     == <<journeyVars, geocodeVars, recentVars, interpVars, mapVars, routeVars, busVars, stopVars, viewVars, serverVars, flyVars>>
outsideRoute   == <<interpVars, mapVars, geoVars, busVars, stopVars, viewVars, serverVars, flyVars>>
outsideBuses   == <<journeyVars, geocodeVars, recentVars, mapVars, geoVars, routeVars, stopVars, viewVars, serverVars, flyVars>>
outsideStops   == <<journeyVars, geocodeVars, recentVars, interpVars, mapVars, geoVars, routeVars,
                    busVars, viewVars, serverVars, flyVars>>
outsideView == <<journeyVars, geocodeVars, recentVars, interpVars, mapVars, geoVars, routeVars, stopVars, busVars, serverVars, flyVars>>
outsideServer == <<journeyVars, geocodeVars, recentVars, interpVars, mapVars, geoVars, routeVars, stopVars, busVars, viewVars, flyVars>>
outsideFly == <<journeyVars, geocodeVars, recentVars, interpVars, mapVars, geoVars, routeVars, stopVars, busVars, viewVars, serverVars>>

Null == [null |-> TRUE]

(***************************************************************************)
(* Static data                                                             *)
(***************************************************************************)

STOPS ==
    << [id |-> "student-union",   name |-> "Student Union",           lat |-> 359105, lon |-> -790478],
       [id |-> "kenan-stadium",   name |-> "Kenan Stadium",           lat |-> 359069, lon |-> -790479],
       [id |-> "dean-dome",       name |-> "Dean Smith Center",       lat |-> 358999, lon |-> -790438],
       [id |-> "franklin-st",     name |-> "Franklin St (Target)",    lat |-> 359132, lon |-> -790558],
       [id |-> "baity-hill-apts", name |-> "Baity Hill Apts",         lat |-> 358970, lon |-> -790400],
       [id |-> "south-campus",    name |-> "South Campus Dorms",      lat |-> 359035, lon |-> -790450],
       [id |-> "davis-lib",       name |-> "Davis Library",           lat |-> 359088, lon |-> -790470],
       [id |-> "morrison",        name |-> "Morrison Residence Hall", lat |-> 359045, lon |-> -790465] >>

MOCK_DESTINATIONS ==
    << [id |-> "davis",     name |-> "Davis Library",        lat |-> 359088, lon |-> -790470, address |-> "208 Raleigh St"],
       [id |-> "union",     name |-> "Student Union",        lat |-> 359105, lon |-> -790478, address |-> "209 South Rd"],
       [id |-> "lenoir",    name |-> "Lenoir Dining Hall",   lat |-> 359118, lon |-> -790482, address |-> "100 Manning Dr"],
       [id |-> "rams",      name |-> "Rams Head Rec Center", lat |-> 359032, lon |-> -790440, address |-> "340 Ridge Rd"],
       [id |-> "dean",      name |-> "Dean Smith Center",    lat |-> 358999, lon |-> -790438, address |-> "300 Skipper Bowles Dr"],
       [id |-> "kenan",     name |-> "Kenan Stadium",        lat |-> 359069, lon |-> -790479, address |-> "104 Stadium Dr"],
       [id |-> "target",    name |-> "Target Franklin St",   lat |-> 359132, lon |-> -790558, address |-> "143 W Franklin St"],
       [id |-> "hospital",  name |-> "UNC Hospitals",        lat |-> 359025, lon |-> -790500, address |-> "101 Manning Dr"],
       [id |-> "store",     name |-> "Student Stores",       lat |-> 359100, lon |-> -790465, address |-> "207 South Rd"],
       [id |-> "granville", name |-> "Granville Towers",     lat |-> 359135, lon |-> -790590, address |-> "125 W Franklin St"] >>

DEFAULT_LOCATION == [lat |-> 359105, lon |-> -790478]

Coord(p) == [lat |-> p.lat, lon |-> p.lon]

\* The coordinates the data files name: the eight stops, then the five
\* destinations that are not at a stop.  HaversineMm is indexed by this list.
PLACES ==
    << [lat |-> 359105, lon |-> -790478], [lat |-> 359069, lon |-> -790479],
       [lat |-> 358999, lon |-> -790438], [lat |-> 359132, lon |-> -790558],
       [lat |-> 358970, lon |-> -790400], [lat |-> 359035, lon |-> -790450],
       [lat |-> 359088, lon |-> -790470], [lat |-> 359045, lon |-> -790465],
       [lat |-> 359118, lon |-> -790482], [lat |-> 359032, lon |-> -790440],
       [lat |-> 359025, lon |-> -790500], [lat |-> 359100, lon |-> -790465],
       [lat |-> 359135, lon |-> -790590] >>

Places == { PLACES[i] : i \in 1..Len(PLACES) }

PlaceIndex(c) == CHOOSE i \in 1..Len(PLACES) : PLACES[i] = Coord(c)

(***************************************************************************)
(* The haversine formula (R = 6371 km) evaluated on every pair of PLACES,  *)
(* rounded to the millimetre.  TLC has no trigonometry, so the values of   *)
(* the formula on the model's coordinates are tabulated.                   *)
(***************************************************************************)
HaversineMm ==
  << <<0, 400403, 1232496, 780523, 1657392, 818197, 202297, 677365, 148975, 880924, 911360, 129609, 1062390>>,
     <<400403, 0, 861522, 998472, 1310777, 459514, 226286, 295157, 545525, 540973, 524545, 367041, 1240138>>,
     <<1232496, 861522, 0, 1831723, 470256, 414637, 1030750, 566365, 1381288, 367385, 628840, 1149095, 2039860>>,
     <<780523, 998472, 1831723, 0, 2295642, 1452400, 931383, 1279608, 701923, 1538135, 1299407, 910002, 290108>>,
     <<1657392, 1310777, 470256, 2295642, 0, 851597, 1455719, 1018952, 1803813, 777877, 1088729, 1559588, 2508906>>,
     <<818197, 459514, 414637, 1452400, 851597, 0, 616247, 174977, 966871, 96048, 463870, 735285, 1681145>>,
     <<202297, 226286, 1030750, 931383, 1455719, 616247, 0, 480254, 350654, 678787, 750831, 140828, 1200449>>,
     <<677365, 295157, 566365, 1279608, 1018952, 174977, 480254, 0, 826036, 267577, 385789, 611572, 1506282>>,
     <<148975, 545525, 1381288, 701923, 1803813, 966871, 350654, 826036, 0, 1028373, 1046743, 251993, 990827>>,
     <<880924, 540973, 367385, 1538135, 777877, 96048, 678787, 267577, 1028373, 0, 545992, 788938, 1771097>>,
     <<911360, 524545, 628840, 1299407, 1088729, 463870, 750831, 385789, 1046743, 545992, 0, 891550, 1467347>>,
     <<129609, 367041, 1149095, 910002, 1559588, 735285, 140828, 611572, 251993, 788938, 891550, 0, 1191114>>,
     <<1062390, 1240138, 2039860, 290108, 2508906, 1681145, 1200449, 1506282, 990827, 1771097, 1467347, 1191114, 0>> >>

(***************************************************************************)
(* utils/geo                                                               *)
(***************************************************************************)

\* Math.ceil(a / b) for a >= 0, b > 0
CeilDiv(a, b) == (a + b - 1) \div b

\* getDistanceMeters reads only .lat and .lon of its arguments (a Stop and a
\* Destination are passed as Coordinates).  Result in millimetres.
getDistanceMeters(c1, c2) == HaversineMm[PlaceIndex(c1)][PlaceIndex(c2)]

\* WALKING_SPEED_MPS = 1.4 m/s is 84000 mm per minute:
\* ceil(d / 1.4 / 60) with d in metres is ceil(dMm / 84000).
WALKING_SPEED_MM_PER_MIN == 84000

\* A slip: Math.floor in place of Math.ceil.
getWalkTimeMinutesFloor(distanceMm) == distanceMm \div WALKING_SPEED_MM_PER_MIN

getWalkTimeMinutes(distanceMm) == CeilDiv(distanceMm, WALKING_SPEED_MM_PER_MIN)

\* A slip: <= in place of <, so the last minimum wins.
closerOrEqual(dist, minDist) == dist <= minDist

\* if (dist < minDist)
closer(dist, minDist) == dist < minDist

\* The loop of findNearestStop from index i on: strict <, so the first
\* minimum wins.
RECURSIVE NearestScan(_, _, _, _, _)
NearestScan(point, stopList, i, nearest, minDist) ==
    IF i > Len(stopList) THEN nearest
    ELSE LET dist == getDistanceMeters(point, stopList[i])
         IN  IF closer(dist, minDist)
             THEN NearestScan(point, stopList, i + 1, stopList[i], dist)
             ELSE NearestScan(point, stopList, i + 1, nearest, minDist)

findNearestStop(point, stopList) ==
    IF Len(stopList) = 0 THEN Null
    ELSE NearestScan(point, stopList, 2, stopList[1],
                     getDistanceMeters(point, stopList[1]))

(***************************************************************************)
(* utils/journey                                                           *)
(***************************************************************************)

\* segments.reduce((acc, seg) => acc + seg.durationMin + (seg.waitTimeMin || 0), 0)
waitOf(seg) == IF "waitTimeMin" \in DOMAIN seg THEN seg.waitTimeMin ELSE 0

RECURSIVE SumDurations(_)
SumDurations(segments) ==
    IF segments = <<>> THEN 0
    ELSE SumDurations(SubSeq(segments, 1, Len(segments) - 1))
         + segments[Len(segments)].durationMin
         + waitOf(segments[Len(segments)])

\* SEGMENT 1 as first pushed: walk from the user's location to the origin stop.
walkToOriginStop(origin, originStop) ==
    LET distToOrigin == getDistanceMeters(origin, originStop)
    IN  [type |-> "walk",
         fromName |-> "Current Location",
         toName |-> originStop.name,
         fromCoords |-> origin,
         toCoords |-> [lat |-> originStop.lat, lon |-> originStop.lon],
         distanceMeters |-> distToOrigin,
         durationMin |-> getWalkTimeMinutes(distToOrigin),
         instruction |-> <<"Walk to", originStop.name>>]

\* A plausible slip: the rewrite of segment 1 forgets toCoords.
walkDirectKeepsStop(seg0, origin, destination) ==
    LET d == getDistanceMeters(origin, destination)
    IN  [seg0 EXCEPT !.toName = destination.name,
                     !.distanceMeters = d,
                     !.durationMin = getWalkTimeMinutes(d),
                     !.instruction = <<"Walk to", destination.name>>]

\* The branch "stops are very close": segment 1 rewritten to go straight to
\* the destination (fromName and fromCoords are left as pushed).
walkDirect(seg0, origin, destination) ==
    LET d == getDistanceMeters(origin, destination)
    IN  [seg0 EXCEPT !.toName = destination.name,
                     !.toCoords = [lat |-> destination.lat, lon |-> destination.lon],
                     !.distanceMeters = d,
                     !.durationMin = getWalkTimeMinutes(d),
                     !.instruction = <<"Walk to", destination.name>>]

\* A plausible slip: the bus leg is named after the origin stop at both ends.
busSegmentSameNames(originStop, destStop, distBus) ==
    [type |-> "bus",
     fromName |-> originStop.name,
     toName |-> originStop.name,
     fromCoords |-> [lat |-> originStop.lat, lon |-> originStop.lon],
     toCoords |-> [lat |-> destStop.lat, lon |-> destStop.lon],
     distanceMeters |-> distBus,
     durationMin |-> CeilDiv(distBus, 600000) + 5,
     instruction |-> <<"Ride P2P Express">>,
     routeId |-> "p2p-express",
     routeName |-> "P2P Express",
     stopsCount |-> 3,
     waitTimeMin |-> 5]

\* SEGMENT 2: distBus / 10 m/s / 60, rounded up, plus 5; the wait is 5 minutes.
busSegment(originStop, destStop, distBus) ==
    [type |-> "bus",
     fromName |-> originStop.name,
     toName |-> destStop.name,
     fromCoords |-> [lat |-> originStop.lat, lon |-> originStop.lon],
     toCoords |-> [lat |-> destStop.lat, lon |-> destStop.lon],
     distanceMeters |-> distBus,
     durationMin |-> CeilDiv(distBus, 600000) + 5,
     instruction |-> <<"Ride P2P Express">>,
     routeId |-> "p2p-express",
     routeName |-> "P2P Express",
     stopsCount |-> 3,
     waitTimeMin |-> 5]

\* SEGMENT 3: walk from the destination stop to the destination.
walkFromDestStop(destStop, destination) ==
    LET distToFinal == getDistanceMeters(destStop, destination)
    IN  [type |-> "walk",
         fromName |-> destStop.name,
         toName |-> destination.name,
         fromCoords |-> [lat |-> destStop.lat, lon |-> destStop.lon],
         toCoords |-> [lat |-> destination.lat, lon |-> destination.lon],
         distanceMeters |-> distToFinal,
         durationMin |-> getWalkTimeMinutes(distToFinal),
         instruction |-> <<"Walk to", destination.name>>]

\* A plausible slip: only the same stop collapses to a walk.
stopsVeryCloseSameIdOnly(originStop, destStop, distBus) ==
    originStop.id = destStop.id

\* if (originStop.id === destStop.id || distBus < 200)
stopsVeryClose(originStop, destStop, distBus) ==
    originStop.id = destStop.id \/ distBus < 200000

composeSegments(origin, destination, originStop, destStop) ==
    LET seg0    == walkToOriginStop(origin, originStop)
        distBus == getDistanceMeters(originStop, destStop)
    IN  IF stopsVeryClose(originStop, destStop, distBus)
        THEN << walkDirect(seg0, origin, destination) >>
        ELSE << seg0,
                busSegment(originStop, destStop, distBus),
                walkFromDestStop(destStop, destination) >>

RECURSIVE SumDurationsNoWait(_)
SumDurationsNoWait(segments) ==
    IF segments = <<>> THEN 0
    ELSE SumDurationsNoWait(Tail(segments)) + Head(segments).durationMin

\* A plausible slip: the reduce leaves the wait times out.
totalDurationNoWait(segments) == SumDurationsNoWait(segments)

\* const totalDuration = segments.reduce(...)
totalDurationOf(segments) == SumDurations(segments)

\* A plausible slip: degrade silently to a walk-only journey.
onMissingStopsWalkOnly(origin, destination) ==
    LET d == getDistanceMeters(origin, destination)
    IN  [threw |-> FALSE,
         value |-> [destination |-> destination,
                    totalDurationMin |-> getWalkTimeMinutes(d),
                    segments |-> << [type |-> "walk",
                                     fromName |-> "Current Location",
                                     toName |-> destination.name,
                                     fromCoords |-> origin,
                                     toCoords |-> Coord(destination),
                                     distanceMeters |-> d,
                                     durationMin |-> getWalkTimeMinutes(d),
                                     instruction |-> <<"Walk to", destination.name>>] >>,
                    arrivalOffsetMs |-> getWalkTimeMinutes(d) * 60000]]

\* if (!originStop || !destStop) throw new Error("Could not find transit stops")
onMissingStops(origin, destination) ==
    [threw |-> TRUE, message |-> "Could not find transit stops"]

\* calculateJourney(userLocation, destination) over the stop list stopList:
\* either throws ("Could not find transit stops") or returns a Journey.
\* startTime is the instant of the call; arrivalTime is kept as its offset
\* from startTime in milliseconds.
calculateJourney(stopList, origin, destination) ==
    LET originStop == findNearestStop(origin, stopList)
        destStop   == findNearestStop(destination, stopList)
    IN  IF originStop = Null \/ destStop = Null
        THEN onMissingStops(origin, destination)
        ELSE LET segments == composeSegments(origin, destination, originStop, destStop)
                 totalDuration == totalDurationOf(segments)
             IN  [threw |-> FALSE,
                  value |-> [destination |-> destination,
                             totalDurationMin |-> totalDuration,
                             segments |-> segments,
                             arrivalOffsetMs |-> totalDuration * 60000]]

(***************************************************************************)
(* App and the simple PlanTripView (the one that calls calculateJourney)   *)
(***************************************************************************)

\* the stop list in use: STOPS as shipped, or no stops at all
StopLists == { STOPS, <<>> }

Destinations == { MOCK_DESTINATIONS[i] : i \in 1..Len(MOCK_DESTINATIONS) }

NoCall == [called |-> FALSE]

JourneyInit ==
    /\ stops \in StopLists
    /\ userLocation = DEFAULT_LOCATION
    /\ loadingLoc = TRUE
    /\ journey = Null
    /\ activeJourney = Null
    /\ alertMsg = ""
    /\ lastCall = NoCall

\* navigator.geolocation.getCurrentPosition: the success callback
geolocationSuccess(c) ==
    /\ loadingLoc
    /\ userLocation' = c
    /\ loadingLoc' = FALSE
    /\ UNCHANGED <<stops, journey, activeJourney, alertMsg, lastCall>>
    /\ UNCHANGED outsideJourney

\* navigator.geolocation.getCurrentPosition: the error callback (or no
\* geolocation at all): the default location stays
geolocationError ==
    /\ loadingLoc
    /\ loadingLoc' = FALSE
    /\ UNCHANGED <<stops, userLocation, journey, activeJourney, alertMsg, lastCall>>
    /\ UNCHANGED outsideJourney

\* handleSelectDestination: try { calculateJourney; setJourney; onPlanRoute }
\* catch { alert('Could not calculate route') }
handleSelectDestination(dest) ==
    LET r == calculateJourney(stops, userLocation, dest)
    IN  /\ lastCall' = [called |-> TRUE, origin |-> userLocation,
                        destination |-> dest, stops |-> stops, result |-> r]
        /\ IF r.threw
           THEN /\ alertMsg' = "Could not calculate route"
                /\ UNCHANGED <<journey, activeJourney>>
           ELSE /\ journey' = r.value
                /\ activeJourney' = r.value
                /\ UNCHANGED alertMsg
        /\ UNCHANGED <<stops, userLocation, loadingLoc>>
        /\ UNCHANGED outsideJourney

\* handleNewSearch: setJourney(null); onPlanRoute(null)
handleNewSearch ==
    /\ journey # Null
    /\ journey' = Null
    /\ activeJourney' = Null
    /\ UNCHANGED <<stops, userLocation, loadingLoc, alertMsg, lastCall>>
    /\ UNCHANGED outsideJourney

JourneyNext ==
    \/ \E c \in Places : geolocationSuccess(c)
    \/ geolocationError
    \/ \E dest \in Destinations : handleSelectDestination(dest)
    \/ handleNewSearch

(***************************************************************************)
(* PlanTripView: the address search effect                                 *)
(* useEffect(..., [query, userLocation.lon, userLocation.lat])             *)
(***************************************************************************)

\* how many effect runs may create an AbortController
MaxControllers == 3

\* the texts typed into the search box
Queries ==
    { <<>>, <<"a", "b">>, <<"a", "b", "c">>, <<"a", "b", "c", " ">>,
      <<" ", "a", "b", " ">>, <<"a", "b", "c", "d">> }

\* the positions geolocation may report while the view is mounted
GeocodePlaces == { PLACES[7], PLACES[9] }

IsSpace(ch) == ch = " "

\* String.prototype.trim
RECURSIVE TrimStart(_)
TrimStart(str) ==
    IF str # <<>> /\ IsSpace(Head(str)) THEN TrimStart(Tail(str)) ELSE str

RECURSIVE TrimEnd(_)
TrimEnd(str) ==
    IF str # <<>> /\ IsSpace(str[Len(str)])
    THEN TrimEnd(SubSeq(str, 1, Len(str) - 1)) ELSE str

Trim(str) == TrimEnd(TrimStart(str))

\* What /api/mapbox/geocode can answer: 200 with a results array, 200 with an
\* empty or missing results array, a non-OK status, or no answer (network error).
GeocodeOutcomes == {"ok", "okEmpty", "notOk", "networkError"}

\* data.results of a 200 answer to ?q=q&proximity=prox
geocodeResultsFor(q, prox) ==
    << [id |-> "place.1", place_name |-> q, q |-> q, proximity |-> prox] >>

\* A slip: the catch leaves the list as it is.
afterGeocodeFailureKeeps(results) == results

\* .catch: setAddressResults([])
afterGeocodeFailure(results) == <<>>

\* A slip: fetch is called without { signal }, so it never sees the abort.
signalIgnored(f) == FALSE

\* controller.signal as the fetch sees it
signalAborted(f) == f.aborted

GeocodeInit ==
    /\ query = <<>>
    /\ addressResults = <<>>
    /\ geocodeLoading = FALSE
    /\ geocodeTimer = Null
    /\ effectCtl = 0
    /\ fetches = {}
    /\ nextCtl = 1
    /\ lastSettle = Null

\* The previous run's cleanup (controller.abort(); clearTimeout(t)) followed
\* by the effect body for the new dependencies.
runGeocodeEffect(newQuery, loc) ==
    LET q == Trim(newQuery)
        afterCleanup ==
            { IF f.ctl = effectCtl THEN [f EXCEPT !.aborted = TRUE] ELSE f : f \in fetches }
    IN  /\ fetches' = afterCleanup
        /\ IF Len(q) < 3
           THEN /\ addressResults' = <<>>
                /\ geocodeLoading' = FALSE
                /\ geocodeTimer' = Null
                /\ effectCtl' = 0
                /\ UNCHANGED nextCtl
           ELSE /\ nextCtl <= MaxControllers
                /\ effectCtl' = nextCtl
                /\ nextCtl' = nextCtl + 1
                /\ geocodeLoading' = TRUE
                /\ geocodeTimer' = [ctl |-> nextCtl, q |-> q, proximity |-> loc]
                /\ UNCHANGED addressResults

\* onChange={(e) => setQuery(e.target.value)}
setQuery(value) ==
    /\ value # query
    /\ query' = value
    /\ runGeocodeEffect(value, userLocation)
    /\ UNCHANGED lastSettle
    /\ UNCHANGED <<stops, userLocation, loadingLoc, journey, activeJourney, alertMsg, lastCall>>
    /\ UNCHANGED outsideGeocode

\* the userLocation prop changes: the effect re-runs with the same query
userLocationChanged(c) ==
    /\ loadingLoc
    /\ c # userLocation
    /\ userLocation' = c
    /\ loadingLoc' = FALSE
    /\ runGeocodeEffect(query, c)
    /\ UNCHANGED lastSettle
    /\ UNCHANGED <<stops, journey, activeJourney, alertMsg, lastCall, query>>
    /\ UNCHANGED outsideGeocode

\* the 280 ms timer fires: the fetch starts
geocodeTimerFires ==
    /\ geocodeTimer # Null
    /\ fetches' = fetches \cup
          { [ctl |-> geocodeTimer.ctl, q |-> geocodeTimer.q,
             proximity |-> geocodeTimer.proximity, aborted |-> FALSE] }
    /\ geocodeTimer' = Null
    /\ UNCHANGED <<query, addressResults, geocodeLoading, effectCtl, nextCtl, lastSettle>>
    /\ UNCHANGED journeyVars
    /\ UNCHANGED outsideGeocode

\* The promise chain of one fetch settles:
\*   .then(res => res.ok ? res.json() : reject).then(data => setAddressResults(...))
\*   .catch(err => { if AbortError return; setAddressResults([]) })
\*   .finally(() => setGeocodeLoading(false))
geocodeFetchSettles(f, outcome) ==
    /\ f \in fetches
    /\ fetches' = fetches \ {f}
    /\ IF signalAborted(f)
       THEN UNCHANGED addressResults
       ELSE addressResults' =
                IF outcome = "ok" THEN geocodeResultsFor(f.q, f.proximity)
                ELSE IF outcome = "okEmpty" THEN <<>>
                ELSE afterGeocodeFailure(addressResults)
    /\ geocodeLoading' = FALSE
    /\ lastSettle' = [request |-> f, outcome |-> outcome, before |-> addressResults]
    /\ UNCHANGED <<query, geocodeTimer, effectCtl, nextCtl>>
    /\ UNCHANGED journeyVars
    /\ UNCHANGED outsideGeocode

GeocodeNext ==
    \/ \E value \in Queries : setQuery(value)
    \/ \E c \in GeocodePlaces : userLocationChanged(c)
    \/ geocodeTimerFires
    \/ \E f \in fetches, outcome \in GeocodeOutcomes : geocodeFetchSettles(f, outcome)

\* the App as mounted, with the full stop list
JourneyIdle ==
    /\ stops = STOPS
    /\ userLocation = DEFAULT_LOCATION
    /\ loadingLoc = TRUE
    /\ journey = Null
    /\ activeJourney = Null
    /\ alertMsg = ""
    /\ lastCall = NoCall

(***************************************************************************)
(* storage/recentSearches                                                  *)
(***************************************************************************)

MAX_ITEMS == 8

EXPIRE_DAYS == 14

\* the clock advances in steps of TickDays up to MaxClock
TickDays == 7

MaxClock == 21

\* String.prototype.toLowerCase on the characters the model uses
LowerChar(ch) ==
    CASE ch = "A" -> "a"
      [] ch = "X" -> "x"
      [] ch = "C" -> "c"
      [] ch = "D" -> "d"
      [] ch = "H" -> "h"
      [] ch = "L" -> "l"
      [] ch = "M" -> "m"
      [] ch = "N" -> "n"
      [] ch = "R" -> "r"
      [] ch = "S" -> "s"
      [] ch = "U" -> "u"
      [] OTHER -> ch

ToLowerCase(str) == [i \in 1..Len(str) |-> LowerChar(str[i])]

\* array.slice(0, n)
Slice0(seq, n) == SubSeq(seq, 1, IF Len(seq) < n THEN Len(seq) ELSE n)

\* getExpiryCutoff: d.setDate(d.getDate() - EXPIRE_DAYS)
getExpiryCutoff(now) == now - EXPIRE_DAYS

\* loadRaw: the stored array, [] when the key is absent (addRecentSearch
\* never stores an empty array, so <<>> stands for the absent key)
loadRaw == storage

\* A slip: the slice is forgotten.
capMergedForgotten(items) == items

\* [next, ...without].slice(0, MAX_ITEMS)
capMerged(items) == Slice0(items, MAX_ITEMS)

\* what getRecentSearches returns at time now when loadRaw gives raw
recentFrom(raw, now) ==
    LET cutoff == getExpiryCutoff(now)
        keep(item) == item.timestamp >= cutoff /\ Trim(item.label) # <<>>
    IN  Slice0(SelectSeq(raw, keep), MAX_ITEMS)

\* getRecentSearches at time now
getRecentSearches(now) == recentFrom(loadRaw, now)

\* A slip: the key is the raw label, not trimmed or lower-cased.
dedupeKeyRaw(item) ==
    IF item.address # <<>> THEN item.label \o <<"|">> \o item.address ELSE item.label

\* dedupeKey: name|addr, or name alone when there is no address
dedupeKey(item) ==
    LET name == ToLowerCase(Trim(item.label))
        addr == ToLowerCase(Trim(item.address))
    IN  IF addr # <<>> THEN name \o <<"|">> \o addr ELSE name

\* A slip: the entries with the key of the new one are not taken out.
mergedWithDuplicates(item, now) ==
    LET next     == item @@ ("timestamp" :> now)
        cutoff   == getExpiryCutoff(now)
        fresh(i) == i.timestamp >= cutoff
        existing == SelectSeq(loadRaw, fresh)
    IN  capMerged(<<next>> \o existing)

\* the list addRecentSearch writes at time now
mergedWith(item, now) ==
    LET next     == item @@ ("timestamp" :> now)
        cutoff   == getExpiryCutoff(now)
        fresh(i) == i.timestamp >= cutoff
        existing == SelectSeq(loadRaw, fresh)
        nextKey  == dedupeKey(next)
        other(i) == dedupeKey(i) # nextKey
        without  == SelectSeq(existing, other)
    IN  capMerged(<<next>> \o without)

\* what callers pass to addRecentSearch: label, address ("" when absent), lat, lon
SearchItems ==
    { [label |-> <<"A">>,           address |-> <<>>,          lat |-> 359088, lon |-> -790470],
      [label |-> <<"a", " ">>,      address |-> <<>>,          lat |-> 359088, lon |-> -790470],
      [label |-> <<"a">>,           address |-> <<"X">>,       lat |-> 359105, lon |-> -790478],
      [label |-> <<" ", "A">>,      address |-> <<"x", " ">>,  lat |-> 359105, lon |-> -790478],
      [label |-> <<"a", "|", "x">>, address |-> <<>>,          lat |-> 359118, lon |-> -790482],
      [label |-> <<" ">>,           address |-> <<>>,          lat |-> 359032, lon |-> -790440] }

FillerChars == <<"1", "2", "3", "4", "5", "6", "7", "8">>

\* a list written by eight earlier calls, all at day 0
FullStore ==
    [k \in 1..MAX_ITEMS |->
        [label |-> <<"b", FillerChars[k]>>, address |-> <<>>, lat |-> 359000 + k, lon |-> -790400,
         timestamp |-> 0]]

RecentInit ==
    /\ storage \in {<<>>, FullStore}
    /\ clock = 0
    /\ lastOp = [op |-> "none", at |-> 0]

\* addRecentSearch(item): localStorage.setItem(STORAGE_KEY, JSON.stringify(merged))
addRecentSearch(item) ==
    /\ storage' = mergedWith(item, clock)
    /\ lastOp' = [op |-> "add", at |-> clock, item |-> item, before |-> loadRaw]
    /\ UNCHANGED clock
    /\ UNCHANGED outsideRecent

\* a call of getRecentSearches (useState initialiser, refreshRecent)
callGetRecentSearches ==
    /\ lastOp' = [op |-> "get", at |-> clock, returned |-> getRecentSearches(clock)]
    /\ UNCHANGED <<storage, clock>>
    /\ UNCHANGED outsideRecent

\* clearRecentSearches: localStorage.removeItem(STORAGE_KEY)
clearRecentSearches ==
    /\ storage # <<>>
    /\ storage' = <<>>
    /\ lastOp' = [op |-> "clear", at |-> clock]
    /\ UNCHANGED clock
    /\ UNCHANGED outsideRecent

\* time passes
clockAdvances ==
    /\ clock + TickDays <= MaxClock
    /\ clock' = clock + TickDays
    /\ lastOp' = [op |-> "tick", at |-> clock']
    /\ UNCHANGED storage
    /\ UNCHANGED outsideRecent

RecentNext ==
    \/ \E item \in SearchItems : addRecentSearch(item)
    \/ callGetRecentSearches
    \/ clearRecentSearches
    \/ clockAdvances

RecentIdle ==
    /\ storage = <<>>
    /\ clock = 0
    /\ lastOp = [op |-> "none", at |-> 0]

(***************************************************************************)
(* utils/routeInterpolation                                                *)
(* A LngLat is <<lon, lat>>.  A point returned by pointAt is kept exactly, *)
(* as from + (num / den) * (to - from); a vertex v is v + 0/1 * (v - v).   *)
(***************************************************************************)

\* how many route lengths before and after the route the distances asked reach
MaxWraps == 2

LngLatOf(p) == <<p.lon, p.lat>>

\* the same haversine formula as getDistanceMeters (R = 6371000), on LngLat
haversineMeters(a, b) ==
    HaversineMm[PlaceIndex([lat |-> a[2], lon |-> a[1]])]
               [PlaceIndex([lat |-> b[2], lon |-> b[1]])]

\* cumul[0] = 0; cumul[i] = cumul[i-1] + haversineMeters(coords[i-1], coords[i])
RECURSIVE cumulativeDistances(_)
cumulativeDistances(coords) ==
    IF Len(coords) <= 1 THEN <<0>>
    ELSE LET before == cumulativeDistances(SubSeq(coords, 1, Len(coords) - 1))
         IN  Append(before,
                    before[Len(before)]
                    + haversineMeters(coords[Len(coords) - 1], coords[Len(coords)]))

\* `${coords.length}-${coords[0].join(',')}-${coords[coords.length - 1].join(',')}`
cacheKey(coords) ==
    IF Len(coords) = 0 THEN <<>>
    ELSE <<Len(coords), coords[1], coords[Len(coords)]>>

\* JavaScript's %: the result has the sign of the dividend
JsRem(a, b) == IF a >= 0 THEN a % b ELSE 0 - ((0 - a) % b)

\* A slip: the negative remainder is not corrected.
wrapDistanceNoCorrection(distMeters, totalLengthMeters) ==
    JsRem(distMeters, totalLengthMeters)

\* let d = distMeters % totalLengthMeters; if (d < 0) d += totalLengthMeters
wrapDistance(distMeters, totalLengthMeters) ==
    LET d == JsRem(distMeters, totalLengthMeters)
    IN  IF d < 0 THEN d + totalLengthMeters ELSE d

\* A slip: the loop stops one segment before the last.
RECURSIVE bracketIndexShort(_, _, _)
bracketIndexShort(cumul, d, i) ==
    IF i < Len(cumul) - 2 /\ cumul[i + 1] < d
    THEN bracketIndexShort(cumul, d, i + 1)
    ELSE i

\* let i = 0; while (i < cumul.length - 1 && cumul[i + 1] < d) i++
\* (indices here are 1-based: cumul[i] is the code's cumul[i - 1])
RECURSIVE bracketIndex(_, _, _)
bracketIndex(cumul, d, i) ==
    IF i < Len(cumul) /\ cumul[i + 1] < d
    THEN bracketIndex(cumul, d, i + 1)
    ELSE i

Vertex(v) == [from |-> v, to |-> v, num |-> 0, den |-> 1]

\* A slip: the start of the route is tested with < instead of <=.
atRouteStartStrict(d) == d < 0

\* if (d <= 0) return c[0]
atRouteStart(d) == d <= 0

\* pointAt of the interpolator ip
pointAt(ip, distMeters) ==
    LET c == ip.c
        cumul == ip.cumul
        d == wrapDistance(distMeters, ip.totalLengthMeters)
    IN  IF atRouteStart(d) THEN Vertex(c[1])
        ELSE IF d >= ip.totalLengthMeters THEN Vertex(c[Len(c)])
        ELSE LET i == bracketIndex(cumul, d, 1)
             IN  [from |-> c[i], to |-> c[i + 1],
                  num |-> d - cumul[i], den |-> cumul[i + 1] - cumul[i]]

\* ROUTE_POLYLINES
P2P_EXPRESS_LINE ==
    << <<-790478, 359105>>, <<-790470, 359088>>, <<-790479, 359069>>,
       <<-790558, 359132>>, <<-790465, 359045>> >>

BAITY_HILL_LINE ==
    << <<-790438, 358999>>, <<-790400, 358970>>, <<-790450, 359035>> >>

\* The geometries handed to createRouteInterpolator: the two curated lines,
\* the Baity Hill line closed into a loop, the same line with every vertex
\* repeated (at the start, in the middle and at the end), a line with the
\* ends and the vertex count of the P2P Express line but another way between
\* them, and two degenerate ones.
Polylines ==
    { P2P_EXPRESS_LINE,
      BAITY_HILL_LINE,
      Append(BAITY_HILL_LINE, BAITY_HILL_LINE[1]),
      << BAITY_HILL_LINE[1], BAITY_HILL_LINE[1], BAITY_HILL_LINE[2],
         BAITY_HILL_LINE[2], BAITY_HILL_LINE[3], BAITY_HILL_LINE[3] >>,
      << P2P_EXPRESS_LINE[1], P2P_EXPRESS_LINE[3], P2P_EXPRESS_LINE[2],
         P2P_EXPRESS_LINE[4], P2P_EXPRESS_LINE[5] >>,
      << BAITY_HILL_LINE[1] >>,
      << >> }

\* the distances asked of an interpolator: every vertex, one millimetre
\* either side of it and the middle of every segment, shifted by whole
\* route lengths either way
RouteOffsets(ip) ==
    LET n == Len(ip.cumul)
    IN  UNION { { ip.cumul[i], ip.cumul[i] + 1, ip.cumul[i] - 1 } : i \in 1..n }
        \cup { (ip.cumul[i] + ip.cumul[i + 1]) \div 2 : i \in 1..(n - 1) }

Distances(ip) ==
    IF ip = Null THEN {}
    ELSE { k * ip.totalLengthMeters + x :
              k \in (0 - MaxWraps)..MaxWraps, x \in RouteOffsets(ip) }

InterpInit ==
    /\ cache = {}
    /\ interpolator = Null
    /\ lastPoint = Null
    /\ requested = <<>>

\* cache.get(key) on the cache m
cacheGet(m, key) ==
    IF \E e \in m : e.key = key
    THEN (CHOOSE e \in m : e.key = key).entry
    ELSE Null

\* the interpolator returned by createRouteInterpolator(coords) when the
\* module's cache is m, and the cache it leaves
interpolatorFrom(m, coords) ==
    IF Len(coords) < 2
    THEN [returned |-> Null, cache |-> m]
    ELSE LET key   == cacheKey(coords)
             found == cacheGet(m, key)
             entry == IF found = Null
                      THEN [cumul |-> cumulativeDistances(coords), coords |-> coords]
                      ELSE found
         IN  [returned |-> [totalLengthMeters |-> entry.cumul[Len(entry.cumul)],
                            cumul |-> entry.cumul,
                            c |-> entry.coords],
              cache |-> IF found = Null
                        THEN m \cup { [key |-> key, entry |-> entry] }
                        ELSE m]

\* createRouteInterpolator(coords)
createRouteInterpolator(coords) ==
    /\ interpolator' = interpolatorFrom(cache, coords).returned
    /\ cache' = interpolatorFrom(cache, coords).cache
    /\ requested' = coords
    /\ lastPoint' = Null
    /\ UNCHANGED outsideInterp

\* a call of pointAt on the interpolator in hand
callPointAt(distMeters) ==
    /\ interpolator # Null
    /\ lastPoint' = [distMeters |-> distMeters, point |-> pointAt(interpolator, distMeters)]
    /\ UNCHANGED <<cache, interpolator, requested>>
    /\ UNCHANGED outsideInterp

InterpNext ==
    \/ \E coords \in Polylines : createRouteInterpolator(coords)
    \/ \E distMeters \in Distances(interpolator) : callPointAt(distMeters)

(***************************************************************************)
(* utils/journeyToMapSources, and the effect of MapboxMap that hands its   *)
(* result to the journey sources of the map                                *)
(***************************************************************************)

Reverse(seq) == [i \in 1..Len(seq) |-> seq[Len(seq) + 1 - i]]

\* dist2(a, b): squared difference in degrees between a LngLat and a Coordinate
dist2(a, b) ==
    LET dlat == a[2] - b.lat
        dlon == a[1] - b.lon
    IN  dlat * dlat + dlon * dlon

\* the loop of closestIndex from index i on (1-based)
RECURSIVE closestScan(_, _, _, _, _)
closestScan(line, p, i, best, bestD) ==
    IF i > Len(line) THEN best
    ELSE LET d == dist2(line[i], p)
         IN  IF d < bestD
             THEN closestScan(line, p, i + 1, i, d)
             ELSE closestScan(line, p, i + 1, best, bestD)

\* closestIndex(line, p), 1-based
closestIndex(line, p) == closestScan(line, p, 2, 1, dist2(line[1], p))

\* A slip: the slice is not reversed when "from" lies after "to".
sliceRouteLineForward(line, from, to) ==
    LET i == closestIndex(line, from)
        j == closestIndex(line, to)
    IN  IF i <= j THEN SubSeq(line, i, j) ELSE SubSeq(line, j, i)

\* sliceRouteLine(line, from, to)
sliceRouteLine(line, from, to) ==
    LET i == closestIndex(line, from)
        j == closestIndex(line, to)
    IN  IF i <= j THEN SubSeq(line, i, j) ELSE Reverse(SubSeq(line, j, i))

\* ROUTE_POLYLINES[routeId]; Null when the route has no curated line
routePolyline(routeId) ==
    IF routeId = "p2p-express" THEN P2P_EXPRESS_LINE
    ELSE IF routeId = "baity-hill" THEN BAITY_HILL_LINE
    ELSE Null

\* emptyFC() / emptyFeatureCollection()
emptyFC == [type |-> "FeatureCollection", features |-> <<>>]

segmentCoords(seg) == << LngLatOf(seg.fromCoords), LngLatOf(seg.toCoords) >>

walkFeature(seg) ==
    [type |-> "Feature",
     geometry |-> [type |-> "LineString", coordinates |-> segmentCoords(seg)]]

\* A slip: a slice of a single vertex is drawn as it is.
busCoordsNoFallback(sliced, coords) == sliced

\* if (busCoords.length < 2) busCoords = coords
busCoords(sliced, coords) == IF Len(sliced) < 2 THEN coords ELSE sliced

\* the feature of a bus segment: the curated line sliced between the two
\* stops, or the straight pair when there is no line or the slice is a point
busFeature(seg) ==
    LET routeId == IF "routeId" \in DOMAIN seg THEN seg.routeId ELSE "p2p-express"
        line == routePolyline(routeId)
        sliced == IF line # Null
                  THEN sliceRouteLine(line, seg.fromCoords, seg.toCoords)
                  ELSE segmentCoords(seg)
    IN  [type |-> "Feature",
         geometry |-> [type |-> "LineString",
                       coordinates |-> busCoords(sliced, segmentCoords(seg))],
         routeId |-> routeId]

IsWalk(seg) == seg.type = "walk"

IsNotWalk(seg) == seg.type # "walk"

featuresOf(segments, walk) ==
    IF walk
    THEN LET ws == SelectSeq(segments, IsWalk)
         IN  [i \in 1..Len(ws) |-> walkFeature(ws[i])]
    ELSE LET bs == SelectSeq(segments, IsNotWalk)
         IN  [i \in 1..Len(bs) |-> busFeature(bs[i])]

\* journeyToMapSources(journey)
journeyToMapSources(j) ==
    IF j = Null \/ Len(j.segments) = 0
    THEN [walkGeoJson |-> emptyFC,
          busGeoJson |-> emptyFC,
          destinationGeoJson |-> Null]
    ELSE [walkGeoJson |->
              [type |-> "FeatureCollection", features |-> featuresOf(j.segments, TRUE)],
          busGeoJson |->
              [type |-> "FeatureCollection", features |-> featuresOf(j.segments, FALSE)],
          destinationGeoJson |->
              [type |-> "FeatureCollection",
               features |-> << [type |-> "Feature",
                                geometry |-> [type |-> "Point",
                                              coordinates |-> LngLatOf(j.destination)],
                                name |-> j.destination.name] >>]]

\* A slip: the destination collection is handed over as it is.
destinationDataRaw(journeySources) == journeySources.destinationGeoJson

\* journeySources.destinationGeoJson ?? emptyFeatureCollection()
destinationData(journeySources) ==
    IF journeySources.destinationGeoJson = Null
    THEN emptyFC
    ELSE journeySources.destinationGeoJson

\* a journey without segments
EmptyJourney ==
    [destination |-> MOCK_DESTINATIONS[1], totalDurationMin |-> 0,
     segments |-> <<>>, arrivalOffsetMs |-> 0]

\* the activeJourney values the map is given: none, one without segments,
\* and the journeys composed from the default location and from four
\* other places to every destination
MapOrigins == { DEFAULT_LOCATION, PLACES[4], PLACES[9], PLACES[10], PLACES[12] }

MapJourneys ==
    { Null, EmptyJourney }
    \cup { calculateJourney(STOPS, o, d).value : o \in MapOrigins, d \in Destinations }

\* the sliceRouteLine call made for the last bus segment of the journey,
\* or the one before when the journey has none
lastSliceIn(j, before) ==
    IF j = Null THEN before
    ELSE LET bs == SelectSeq(j.segments, IsNotWalk)
         IN  IF Len(bs) = 0 THEN before
             ELSE LET seg == bs[Len(bs)]
                      line == routePolyline(IF "routeId" \in DOMAIN seg
                                            THEN seg.routeId ELSE "p2p-express")
                  IN  IF line = Null THEN before
                      ELSE [line |-> line, from |-> seg.fromCoords, to |-> seg.toCoords,
                            returned |-> sliceRouteLine(line, seg.fromCoords, seg.toCoords)]

\* the lines sliced: the curated polylines and the variants with a closed
\* loop, a repeated vertex and a single vertex
SliceLines == { l \in Polylines : Len(l) >= 1 }

MapInit ==
    /\ mapSources = Null
    /\ sourceData = [walk |-> emptyFC, bus |-> emptyFC, destination |-> emptyFC]
    /\ lastSlice = Null

\* the "update sources when data changes" effect of MapboxMap, for the
\* journey sources, run with activeJourney = j on a ready map
updateJourneySources(j) ==
    LET journeySources == journeyToMapSources(j)
    IN  /\ mapSources' = [journey |-> j, returned |-> journeySources]
        /\ sourceData' = [walk |-> journeySources.walkGeoJson,
                          bus |-> journeySources.busGeoJson,
                          destination |-> destinationData(journeySources)]
        /\ lastSlice' = lastSliceIn(j, lastSlice)
        /\ UNCHANGED outsideMap

\* a call of sliceRouteLine
callSliceRouteLine(line, from, to) ==
    /\ lastSlice' = [line |-> line, from |-> from, to |-> to,
                     returned |-> sliceRouteLine(line, from, to)]
    /\ UNCHANGED <<mapSources, sourceData>>
    /\ UNCHANGED outsideMap

MapNext == \E j \in MapJourneys : updateJourneySources(j)

SliceNext ==
    \E line \in SliceLines, from \in Places, to \in Places :
        callSliceRouteLine(line, from, to)

(***************************************************************************)
(* utils/geo called on its own: the nearest stop of a point in a stop      *)
(* list, and the walking time of a distance                                *)
(***************************************************************************)

\* how many whole walking minutes the distances tried reach
MaxWalkMinutes == 3

\* a second stop at the place of the stop s
TwinOf(s) == [id |-> "twin", name |-> "Twin", lat |-> s.lat, lon |-> s.lon]

\* the stop lists findNearestStop is given: none, one stop, the stops as
\* shipped and in reverse, and the shipped stops with a second stop at the
\* place of one of them, before or after it
NearestStopLists ==
    { <<>>, <<STOPS[4]>>, STOPS, Reverse(STOPS) }
    \cup { <<TwinOf(STOPS[i])>> \o STOPS : i \in {1, 6} }
    \cup { STOPS \o <<TwinOf(STOPS[i])>> : i \in {3, 8} }

\* the distances getWalkTimeMinutes is given, in millimetres: every distance
\* between two places, and a millimetre either side of every whole minute
WalkDistances ==
    { HaversineMm[i][j] : i, j \in 1..Len(PLACES) }
    \cup { d \in { k * WALKING_SPEED_MM_PER_MIN + e :
                      k \in 0..MaxWalkMinutes, e \in {0 - 1, 0, 1} } : d >= 0 }

GeoInit == lastGeo = [op |-> "none"]

callFindNearestStop(point, stopList) ==
    /\ lastGeo' = [op |-> "findNearestStop", point |-> point, stops |-> stopList,
                   returned |-> findNearestStop(point, stopList)]
    /\ UNCHANGED outsideGeo

callGetWalkTimeMinutes(d) ==
    /\ lastGeo' = [op |-> "getWalkTimeMinutes", distance |-> d,
                   returned |-> getWalkTimeMinutes(d)]
    /\ UNCHANGED outsideGeo

GeoNext ==
    \/ \E point \in Places, stopList \in NearestStopLists :
           callFindNearestStop(point, stopList)
    \/ \E d \in WalkDistances : callGetWalkTimeMinutes(d)

(***************************************************************************)
(* PlanTripView with computeMultimodalRoute: selecting a destination,      *)
(* awaiting the route, starting a new search                               *)
(***************************************************************************)

\* the destinations selected in the list: Davis Library and UNC Hospitals
RouteDestinations == { MOCK_DESTINATIONS[1], MOCK_DESTINATIONS[8] }

\* dest.name and dest.address as the characters of the string
nameText(dest) ==
    IF dest.id = "davis"
    THEN <<"D", "a", "v", "i", "s", " ", "L", "i", "b", "r", "a", "r", "y">>
    ELSE <<"U", "N", "C", " ", "H", "o", "s", "p", "i", "t", "a", "l", "s">>

addressText(dest) ==
    IF dest.id = "davis"
    THEN <<"2", "0", "8", " ", "R", "a", "l", "e", "i", "g", "h", " ", "S", "t">>
    ELSE <<"1", "0", "1", " ", "M", "a", "n", "n", "i", "n", "g", " ", "D", "r">>

\* The journey the promise of computeMultimodalRoute({ origin, destination })
\* resolves with, when it does not reject: the straight-line estimate of the
\* journey composer stands for it.
computeMultimodalRoute(request) ==
    calculateJourney(STOPS, request.origin, request.destination).value

RouteInit ==
    /\ routingLoading = FALSE
    /\ routeRequest = Null
    /\ routeSettled = Null

\* setQuery(text) in a handler: the address search effect re-runs when the
\* text is another one
queryBecomes(text) ==
    /\ query' = text
    /\ IF text # query
       THEN runGeocodeEffect(text, userLocation)
       ELSE UNCHANGED <<addressResults, geocodeLoading, geocodeTimer, effectCtl,
                        fetches, nextCtl>>
    /\ UNCHANGED lastSettle

\* handleSelectDestination up to its await: setQuery(dest.name),
\* addRecentSearch, refreshRecent, setRoutingLoading(true) and the call of
\* computeMultimodalRoute.  The list is on screen only when no route is
\* awaited and no journey is displayed.
selectDestination(dest) ==
    /\ ~routingLoading
    /\ journey = Null
    /\ queryBecomes(nameText(dest))
    /\ storage' = mergedWith([label |-> nameText(dest), address |-> addressText(dest),
                              lat |-> dest.lat, lon |-> dest.lon], clock)
    /\ lastOp' = [op |-> "get", at |-> clock, returned |-> recentFrom(storage', clock)]
    /\ routingLoading' = TRUE
    /\ routeRequest' = [origin |-> userLocation, destination |-> dest]
    /\ routeSettled' = Null
    /\ UNCHANGED <<stops, userLocation, loadingLoc, journey, activeJourney, alertMsg,
                   lastCall, clock>>
    /\ UNCHANGED outsideRoute

\* A slip: the flag is reset in the try block only, after onPlanRoute.
loadingAfterRejectionKept(loading) == loading

\* finally { setRoutingLoading(false) } on the catch path
loadingAfterRejection(loading) == FALSE

\* handleSelectDestination after its await:
\*   try { setJourney(newJourney); onPlanRoute(newJourney) }
\*   catch { alert('Could not calculate route') }
\*   finally { setRoutingLoading(false) }
routeSettles(rejected) ==
    /\ routeRequest # Null
    /\ IF rejected
       THEN /\ alertMsg' = "Could not calculate route"
            /\ routingLoading' = loadingAfterRejection(routingLoading)
            /\ UNCHANGED <<journey, activeJourney>>
       ELSE /\ journey' = computeMultimodalRoute(routeRequest)
            /\ activeJourney' = computeMultimodalRoute(routeRequest)
            /\ routingLoading' = FALSE
            /\ UNCHANGED alertMsg
    /\ routeRequest' = Null
    /\ routeSettled' = [request |-> routeRequest, rejected |-> rejected]
    /\ UNCHANGED <<stops, userLocation, loadingLoc, lastCall>>
    /\ UNCHANGED <<geocodeVars, recentVars>>
    /\ UNCHANGED outsideRoute

\* handleNewSearch: setQuery(''); setJourney(null); onPlanRoute(null)
newSearch ==
    /\ ~routingLoading
    /\ journey # Null
    /\ queryBecomes(<<>>)
    /\ journey' = Null
    /\ activeJourney' = Null
    /\ UNCHANGED <<stops, userLocation, loadingLoc, alertMsg, lastCall>>
    /\ UNCHANGED <<recentVars, routeVars>>
    /\ UNCHANGED outsideRoute

RouteNext ==
    \/ \E dest \in RouteDestinations : selectDestination(dest)
    \/ \E rejected \in BOOLEAN : routeSettles(rejected)
    \/ newSearch
    \/ geocodeTimerFires
    \/ \E f \in fetches, outcome \in GeocodeOutcomes : geocodeFetchSettles(f, outcome)

(***************************************************************************)
(* MapboxMap: the route polylines fetched from the server proxy, and the   *)
(* bus animation that snaps each vehicle to its route                      *)
(***************************************************************************)

\* how many ticks of the animation are followed
MaxTicks == 3

\* how many times the vehicles are refreshed while the map is mounted
MaxRefreshes == 2

\* metres per second, which is millimetres per millisecond
BUS_SPEED_MPS == 6

TICK_MS == 300

\* now - lastTickRef.current, in milliseconds: the interval's period, or ten
\* minutes when the timers of the page were held back
TickGaps == { TICK_MS, 600000 }

RouteKeys == { "P2P_EXPRESS", "BAITY_HILL" }

\* VEHICLES
VEHICLES ==
    << [id |-> "bus-104", routeId |-> "p2p-express", lat |-> 359110, lon |-> -790485, heading |-> 90],
       [id |-> "bus-202", routeId |-> "baity-hill",  lat |-> 359010, lon |-> -790420, heading |-> 180],
       [id |-> "bus-108", routeId |-> "p2p-express", lat |-> 359040, lon |-> -790460, heading |-> 0] >>

\* data.geometry.coordinates of a 200 answer of /api/mapbox/route
RouteAnswers(routeId) ==
    IF routeId = "P2P_EXPRESS"
    THEN { P2P_EXPRESS_LINE,
           << P2P_EXPRESS_LINE[1], P2P_EXPRESS_LINE[3], P2P_EXPRESS_LINE[2],
              P2P_EXPRESS_LINE[4], P2P_EXPRESS_LINE[5] >>,
           << P2P_EXPRESS_LINE[1] >>,
           << >> }
    ELSE { BAITY_HILL_LINE,
           Append(BAITY_HILL_LINE, BAITY_HILL_LINE[1]),
           << BAITY_HILL_LINE[1] >> }

\* routeIdToKey
routeIdToKey(id) == IF id = "p2p-express" THEN "P2P_EXPRESS" ELSE "BAITY_HILL"

\* the segment whose bearing bearingAt returns, as the pair of its ends
bearingAt(ip, distMeters) ==
    LET c == ip.c
        cumul == ip.cumul
        d == wrapDistance(distMeters, ip.totalLengthMeters)
    IN  IF d <= 0 THEN <<c[1], c[2]>>
        ELSE IF d >= ip.totalLengthMeters THEN <<c[Len(c) - 1], c[Len(c)]>>
        ELSE LET i == bracketIndex(cumul, d, 1)
             IN  <<c[i], c[i + 1]>>

BusesInit ==
    /\ routeFetches = RouteKeys
    /\ routeGeoms = [r \in RouteKeys |-> <<>>]
    /\ interpolators = [r \in RouteKeys |-> Null]
    /\ busDistMeters = <<>>
    /\ positions = <<>>
    /\ lastTick = Null
    /\ mounted = TRUE
    /\ timers = {1}
    /\ effectTimer = 1
    /\ nextTimer = 2

\* the .then of a route fetch that answered 200
routeFetchSucceeds(routeId, coords) ==
    /\ routeId \in routeFetches
    /\ routeFetches' = routeFetches \ {routeId}
    /\ IF Len(coords) = 0
       THEN UNCHANGED <<routeGeoms, interpolators, cache>>
       ELSE /\ routeGeoms' = [routeGeoms EXCEPT ![routeId] = coords]
            /\ interpolators' = [interpolators EXCEPT
                                    ![routeId] = interpolatorFrom(cache, coords).returned]
            /\ cache' = interpolatorFrom(cache, coords).cache
    /\ UNCHANGED <<busDistMeters, positions, lastTick>>
    /\ UNCHANGED <<mounted, timers, effectTimer, nextTimer>>
    /\ UNCHANGED <<interpolator, lastPoint, requested>>
    /\ UNCHANGED outsideBuses

\* the .catch of a route fetch: a non-OK status or a network error
routeFetchFails(routeId) ==
    /\ routeId \in routeFetches
    /\ routeFetches' = routeFetches \ {routeId}
    /\ UNCHANGED <<routeGeoms, interpolators, busDistMeters, positions, lastTick>>
    /\ UNCHANGED <<mounted, timers, effectTimer, nextTimer>>
    /\ UNCHANGED interpVars
    /\ UNCHANGED outsideBuses

\* the vehicles of the route of v, in the order of the list
IndexOnRoute(v) ==
    Cardinality({ k \in 1..Len(VEHICLES) :
                    /\ routeIdToKey(VEHICLES[k].routeId) = routeIdToKey(v.routeId)
                    /\ \E n \in (k + 1)..Len(VEHICLES) : VEHICLES[n] = v })

CountOnRoute(v) ==
    Cardinality({ k \in 1..Len(VEHICLES) :
                    routeIdToKey(VEHICLES[k].routeId) = routeIdToKey(v.routeId) })

\* initBusDist: total * (idx / Math.max(count, 1)), to the millimetre
initBusDist(dists, v) ==
    LET ip == interpolators[routeIdToKey(v.routeId)]
    IN  IF ip # Null /\ v.id \notin DOMAIN dists
        THEN dists @@ (v.id :> ((ip.totalLengthMeters * IndexOnRoute(v)) \div CountOnRoute(v)))
        ELSE dists

\* A slip: the distance is advanced and not wrapped at the route length.
advancedNoWrap(dists, v, dtMs) ==
    LET d0 == IF v.id \in DOMAIN dists THEN dists[v.id] ELSE 0
    IN  d0 + BUS_SPEED_MPS * dtMs

\* the distance of v after a tick of dtMs milliseconds
advanced(dists, v, dtMs) ==
    LET ip == interpolators[routeIdToKey(v.routeId)]
        d0 == IF v.id \in DOMAIN dists THEN dists[v.id] ELSE 0
    IN  wrapDistance(d0 + BUS_SPEED_MPS * dtMs, ip.totalLengthMeters)

\* A slip: a vehicle without an interpolator is left out.
positionWithoutInterpolatorDropped(v) == <<>>

\* positions.push({ id, routeId, lon: v.lon, lat: v.lat, bearing: v.heading ?? 0 })
positionWithoutInterpolator(v) ==
    << [id |-> v.id, routeId |-> v.routeId,
        at |-> [lon |-> v.lon, lat |-> v.lat],
        bearing |-> [degrees |-> v.heading]] >>

\* vehicles.forEach of tick, from the k-th vehicle on: the distances and the
\* positions after it
RECURSIVE tickFrom(_, _, _, _)
tickFrom(k, dists, out, dtMs) ==
    IF k > Len(VEHICLES) THEN [dists |-> dists, positions |-> out]
    ELSE LET v == VEHICLES[k]
             ip == interpolators[routeIdToKey(v.routeId)]
             known == initBusDist(dists, v)
         IN  IF ip # Null
             THEN LET d == advanced(known, v, dtMs)
                      next == [id \in (DOMAIN known) \cup {v.id} |->
                                  IF id = v.id THEN d ELSE known[id]]
                  IN  tickFrom(k + 1, next,
                               Append(out, [id |-> v.id, routeId |-> v.routeId,
                                            at |-> pointAt(ip, d),
                                            bearing |-> [segment |-> bearingAt(ip, d)]]),
                               dtMs)
             ELSE tickFrom(k + 1, known, out \o positionWithoutInterpolator(v), dtMs)

\* tick(now) of the setInterval, dtMs after the last one
tick(dtMs) ==
    /\ timers # {}
    /\ (IF lastTick = Null THEN 0 ELSE lastTick.count) < MaxTicks
    /\ LET after == tickFrom(1, busDistMeters, <<>>, dtMs)
       IN  /\ busDistMeters' = after.dists
           /\ positions' = after.positions
    /\ lastTick' = [dtMs |-> dtMs,
                    had |-> [r \in RouteKeys |-> interpolators[r] # Null],
                    count |-> (IF lastTick = Null THEN 0 ELSE lastTick.count) + 1]
    /\ UNCHANGED <<routeFetches, routeGeoms, interpolators>>
    /\ UNCHANGED <<mounted, timers, effectTimer, nextTimer>>
    /\ UNCHANGED interpVars
    /\ UNCHANGED outsideBuses

\* A slip: the cleanup of the effect leaves its interval running.
clearIntervalForgotten(active, id) == active

\* return () => clearInterval(id)
clearInterval(active, id) == active \ {id}

\* handleRefreshEtas of App gives the map a new vehicles array: the cleanup
\* of the animation effect runs, then the effect again
refreshEtas ==
    /\ mounted
    /\ nextTimer <= MaxRefreshes + 1
    /\ timers' = clearInterval(timers, effectTimer) \cup {nextTimer}
    /\ effectTimer' = nextTimer
    /\ nextTimer' = nextTimer + 1
    /\ UNCHANGED <<routeFetches, routeGeoms, interpolators, busDistMeters, positions,
                   lastTick, mounted>>
    /\ UNCHANGED interpVars
    /\ UNCHANGED outsideBuses

\* the map view is left: the cleanups of the effects of MapboxMap run
unmount ==
    /\ mounted
    /\ mounted' = FALSE
    /\ timers' = clearInterval(timers, effectTimer)
    /\ effectTimer' = 0
    /\ UNCHANGED <<routeFetches, routeGeoms, interpolators, busDistMeters, positions,
                   lastTick, nextTimer>>
    /\ UNCHANGED interpVars
    /\ UNCHANGED outsideBuses

BusesNext ==
    \/ \E routeId \in RouteKeys :
           \E coords \in RouteAnswers(routeId) : routeFetchSucceeds(routeId, coords)
    \/ \E routeId \in RouteKeys : routeFetchFails(routeId)
    \/ \E dtMs \in TickGaps : tick(dtMs)
    \/ refreshEtas
    \/ unmount

(***************************************************************************)
(* The stops of the two routes, and the stop and the bus selected on the   *)
(* map                                                                     *)
(***************************************************************************)

\* P2P_EXPRESS_STOPS, coordinates rounded to 1e-4 degree, names left out
P2P_EXPRESS_STOPS ==
    << [id |-> "p2p-express-0", lat |-> 359034, lon |-> -790439, routeId |-> "P2P_EXPRESS", order |-> 0],
       [id |-> "p2p-express-1", lat |-> 359006, lon |-> -790406, routeId |-> "P2P_EXPRESS", order |-> 1],
       [id |-> "p2p-express-2", lat |-> 359004, lon |-> -790432, routeId |-> "P2P_EXPRESS", order |-> 2],
       [id |-> "p2p-express-3", lat |-> 359013, lon |-> -790439, routeId |-> "P2P_EXPRESS", order |-> 3],
       [id |-> "p2p-express-4", lat |-> 359019, lon |-> -790455, routeId |-> "P2P_EXPRESS", order |-> 4],
       [id |-> "p2p-express-5", lat |-> 359035, lon |-> -790466, routeId |-> "P2P_EXPRESS", order |-> 5],
       [id |-> "p2p-express-6", lat |-> 359041, lon |-> -790442, routeId |-> "P2P_EXPRESS", order |-> 6],
       [id |-> "p2p-express-7", lat |-> 359069, lon |-> -790445, routeId |-> "P2P_EXPRESS", order |-> 7],
       [id |-> "p2p-express-8", lat |-> 359083, lon |-> -790470, routeId |-> "P2P_EXPRESS", order |-> 8],
       [id |-> "p2p-express-9", lat |-> 359097, lon |-> -790475, routeId |-> "P2P_EXPRESS", order |-> 9],
       [id |-> "p2p-express-10", lat |-> 359110, lon |-> -790467, routeId |-> "P2P_EXPRESS", order |-> 10],
       [id |-> "p2p-express-11", lat |-> 359125, lon |-> -790474, routeId |-> "P2P_EXPRESS", order |-> 11],
       [id |-> "p2p-express-12", lat |-> 359148, lon |-> -790487, routeId |-> "P2P_EXPRESS", order |-> 12],
       [id |-> "p2p-express-13", lat |-> 359152, lon |-> -790506, routeId |-> "P2P_EXPRESS", order |-> 13],
       [id |-> "p2p-express-14", lat |-> 359144, lon |-> -790528, routeId |-> "P2P_EXPRESS", order |-> 14],
       [id |-> "p2p-express-16", lat |-> 359117, lon |-> -790562, routeId |-> "P2P_EXPRESS", order |-> 16],
       [id |-> "p2p-express-15", lat |-> 359136, lon |-> -790549, routeId |-> "P2P_EXPRESS", order |-> 15],
       [id |-> "p2p-express-17", lat |-> 359089, lon |-> -790548, routeId |-> "P2P_EXPRESS", order |-> 17],
       [id |-> "p2p-express-18", lat |-> 359083, lon |-> -790543, routeId |-> "P2P_EXPRESS", order |-> 18],
       [id |-> "p2p-express-19", lat |-> 359090, lon |-> -790491, routeId |-> "P2P_EXPRESS", order |-> 19],
       [id |-> "p2p-express-20", lat |-> 359081, lon |-> -790470, routeId |-> "P2P_EXPRESS", order |-> 20],
       [id |-> "p2p-express-21", lat |-> 359065, lon |-> -790445, routeId |-> "P2P_EXPRESS", order |-> 21] >>

\* BAITY_HILL_STOPS, coordinates rounded to 1e-4 degree, names left out
BAITY_HILL_STOPS ==
    << [id |-> "baity-hill-0", lat |-> 359034, lon |-> -790439, routeId |-> "BAITY_HILL", order |-> 0],
       [id |-> "baity-hill-1", lat |-> 358978, lon |-> -790425, routeId |-> "BAITY_HILL", order |-> 1],
       [id |-> "baity-hill-2", lat |-> 358977, lon |-> -790437, routeId |-> "BAITY_HILL", order |-> 2],
       [id |-> "baity-hill-3", lat |-> 358978, lon |-> -790458, routeId |-> "BAITY_HILL", order |-> 3],
       [id |-> "baity-hill-4", lat |-> 358991, lon |-> -790501, routeId |-> "BAITY_HILL", order |-> 4],
       [id |-> "baity-hill-5", lat |-> 359023, lon |-> -790548, routeId |-> "BAITY_HILL", order |-> 5],
       [id |-> "baity-hill-6", lat |-> 359055, lon |-> -790533, routeId |-> "BAITY_HILL", order |-> 6],
       [id |-> "baity-hill-7", lat |-> 359093, lon |-> -790532, routeId |-> "BAITY_HILL", order |-> 7],
       [id |-> "baity-hill-8", lat |-> 359111, lon |-> -790562, routeId |-> "BAITY_HILL", order |-> 8],
       [id |-> "baity-hill-9", lat |-> 359137, lon |-> -790541, routeId |-> "BAITY_HILL", order |-> 9],
       [id |-> "baity-hill-10", lat |-> 359147, lon |-> -790488, routeId |-> "BAITY_HILL", order |-> 10],
       [id |-> "baity-hill-11", lat |-> 359098, lon |-> -790478, routeId |-> "BAITY_HILL", order |-> 11],
       [id |-> "baity-hill-12", lat |-> 359069, lon |-> -790549, routeId |-> "BAITY_HILL", order |-> 12],
       [id |-> "baity-hill-13", lat |-> 359021, lon |-> -790543, routeId |-> "BAITY_HILL", order |-> 13],
       [id |-> "baity-hill-14", lat |-> 359035, lon |-> -790466, routeId |-> "BAITY_HILL", order |-> 14] >>

\* STOPS of p2pStops: the stops of both routes, the list the map is given
ALL_ROUTE_STOPS == P2P_EXPRESS_STOPS \o BAITY_HILL_STOPS

\* routeStopsToGeoJSON: one point per stop, in the order of the list
routeStopsToGeoJSON(routeStops, selectedId) ==
    [k \in 1..Len(routeStops) |->
        [id |-> routeStops[k].id,
         coordinates |-> <<routeStops[k].lon, routeStops[k].lat>>,
         selected |-> (selectedId # "" /\ routeStops[k].id = selectedId)]]

\* the two stop sources after the effect on mapReady and selectedStopId ran
stopSourcesFor(ready, selectedId) ==
    IF ready
    THEN [express |-> routeStopsToGeoJSON(P2P_EXPRESS_STOPS, selectedId),
          baity |-> routeStopsToGeoJSON(BAITY_HILL_STOPS, selectedId)]
    ELSE [express |-> <<>>, baity |-> <<>>]

StopsInit ==
    /\ mapReady = FALSE
    /\ selectedStop = ""
    /\ selectedBus = ""
    /\ stopSources = stopSourcesFor(FALSE, "")

\* the 'load' event of the map: the sources exist and the effects run
mapLoads ==
    /\ ~mapReady
    /\ mapReady' = TRUE
    /\ stopSources' = stopSourcesFor(TRUE, selectedStop)
    /\ UNCHANGED <<selectedStop, selectedBus>>
    /\ UNCHANGED outsideStops

\* a click on the k-th feature of a stops layer: onStop, then onSelectStop
onStop(source, k) ==
    /\ mapReady
    /\ k \in 1..Len(stopSources[source])
    /\ LET id == stopSources[source][k].id
       IN  IF \E n \in 1..Len(ALL_ROUTE_STOPS) : ALL_ROUTE_STOPS[n].id = id
           THEN /\ selectedStop' = IF selectedStop = id THEN "" ELSE id
                /\ stopSources' = stopSourcesFor(TRUE, selectedStop')
           ELSE UNCHANGED <<selectedStop, stopSources>>
    /\ UNCHANGED <<mapReady, selectedBus>>
    /\ UNCHANGED outsideStops

\* a click on a bus: onBus, then onSelectBus
onBus(k) ==
    /\ mapReady
    /\ k \in 1..Len(VEHICLES)
    /\ selectedBus' = VEHICLES[k].id
    /\ selectedStop' = ""
    /\ stopSources' = stopSourcesFor(TRUE, selectedStop')
    /\ UNCHANGED mapReady
    /\ UNCHANGED outsideStops

StopsNext ==
    \/ mapLoads
    \/ \E source \in {"express", "baity"} :
           \E k \in 1..Len(ALL_ROUTE_STOPS) : onStop(source, k)
    \/ \E k \in 1..Len(VEHICLES) : onBus(k)


(***************************************************************************)
(* PlanTripView: the result view of a journey, its leave-by line           *)
(***************************************************************************)

\* the largest wait estimate of a bus segment, in minutes
MaxWaitMin == 3

bufferSec == 90

\* new Date().getTime() when the view renders, in milliseconds after midnight:
\* early in the day, at noon, and a second before the next day
RenderTimes == { 90000, 43200000, 86399000 }

\* segment seg with its wait estimate set to waitMin, or without the field
segmentWithWait(seg, estimated, waitMin) ==
    IF seg.type = "walk" THEN seg
    ELSE IF estimated
         THEN [f \in (DOMAIN seg) \cup {"waitTimeMin"} |->
                  IF f = "waitTimeMin" THEN waitMin ELSE seg[f]]
         ELSE [f \in (DOMAIN seg) \ {"waitTimeMin"} |-> seg[f]]

\* a journey as the router may return it: the bus segment with or without a
\* wait estimate, and with or without the walk segments around it
journeyWithWait(j, estimated, waitMin, walks) ==
    LET kept == IF walks THEN j.segments ELSE SelectSeq(j.segments, IsNotWalk)
    IN  [j EXCEPT !.segments = [k \in 1..Len(kept) |->
                                   segmentWithWait(kept[k], estimated, waitMin)]]

ViewJourneys ==
    { journeyWithWait(calculateJourney(STOPS, o, d).value, e, w, walks) :
        o \in MapOrigins, d \in RouteDestinations,
        e \in BOOLEAN, w \in 0..MaxWaitMin, walks \in BOOLEAN }

\* journey.segments.find(pred) ?? null
findSegment(segments, walk) ==
    LET found == IF walk THEN SelectSeq(segments, IsWalk) ELSE SelectSeq(segments, IsNotWalk)
    IN  IF Len(found) = 0 THEN Null ELSE found[1]

\* toLocaleTimeString(undefined, { hour: 'numeric', minute: '2-digit' })
clockTime(ms) ==
    [hour |-> (ms \div 3600000) % 24, minute |-> (ms \div 60000) % 60]

\* A slip: the buffer is left out of the leave-by time.
leaveOffsetMsNoBuffer(waitAtStopSec) == waitAtStopSec * 1000

\* (waitAtStopSec - bufferSec) * 1000
leaveOffsetMs(waitAtStopSec) == (waitAtStopSec - bufferSec) * 1000

\* the header of the result view, from journey and now
resultHeader(j, now) ==
    LET firstWalk == findSegment(j.segments, TRUE)
        busSeg == findSegment(j.segments, FALSE)
        hasBus == busSeg # Null
        hasWait == hasBus /\ "waitTimeMin" \in DOMAIN busSeg
        hasBusArrivalEstimate == hasWait /\ firstWalk # Null
        walkToStartStopSec == IF firstWalk # Null THEN firstWalk.durationMin * 60 ELSE 0
        waitAtStopSec == IF hasWait THEN busSeg.waitTimeMin * 60 ELSE 0
        nextBusAt == now + (walkToStartStopSec + waitAtStopSec) * 1000
        leaveAt == now + leaveOffsetMs(waitAtStopSec)
        shouldLeaveNow == hasBusArrivalEstimate /\ leaveAt <= now
    IN  [journey |-> j,
         now |-> now,
         leaveAt |-> IF hasBusArrivalEstimate THEN [ms |-> leaveAt] ELSE Null,
         leaveLine |-> IF hasBus /\ hasBusArrivalEstimate
                       THEN IF shouldLeaveNow THEN [text |-> "Leave now"]
                            ELSE [clock |-> clockTime(leaveAt)]
                       ELSE Null,
         nextBus |-> IF hasBus /\ hasBusArrivalEstimate
                     THEN [clock |-> clockTime(nextBusAt)] ELSE Null,
         walkingOnlyNotice |-> hasBus /\ ~hasBusArrivalEstimate]

ViewInit == resultView = Null

\* PlanTripView renders with journey set
renderResult(j, now) ==
    /\ resultView' = resultHeader(j, now)
    /\ UNCHANGED outsideView

ViewNext ==
    \E j \in ViewJourneys : \E now \in RenderTimes : renderResult(j, now)


(***************************************************************************)
(* The API server: the request handler, and the route proxy with its cache *)
(***************************************************************************)

\* how many requests the server is followed for
MaxRequests == 3

\* how many times the server's clock is moved on
MaxClockSteps == 2

ROUTE_CACHE_TTL_MS == 21600000

\* the clock moves on by three hours at a time
ClockStepMs == 10800000

\* the routeId parameter of a request for /api/mapbox/route
RouteParams == { "P2P_EXPRESS", "BAITY_HILL", "OTHER" }

\* the geometries the Directions API may answer with
UpstreamGeometries == { "geometryA", "geometryB" }

ServerInit ==
    /\ serverClock = 0
    /\ routeCache = [r \in RouteKeys |-> Null]
    /\ serverRequests = <<>>
    /\ lastFetched = [r \in RouteKeys |-> Null]
    /\ mapboxToken = TRUE
    /\ summaryCache = Null
    /\ walkCache = Null

\* the request numbered n with its state and one more response
answered(requests, n, code, payload) ==
    [requests EXCEPT ![n].state = "answered",
                     ![n].responses = Append(@, [code |-> code, payload |-> payload])]

\* A slip: a cached entry is never taken for fresh.
routeCacheFreshNever(cached, now) == FALSE

\* cached && Date.now() - cached.at < ROUTE_CACHE_TTL_MS
routeCacheFresh(cached, now) ==
    cached # Null /\ now - cached.at < ROUTE_CACHE_TTL_MS

\* GET /api/mapbox/route?routeId=...: the handler up to its first await
receiveRouteRequest(routeId) ==
    /\ Len(serverRequests) < MaxRequests
    /\ LET n == Len(serverRequests) + 1
           arrived == Append(serverRequests,
                             [kind |-> "route", routeId |-> routeId, state |-> "received",
                              upstream |-> FALSE,
                              responses |-> <<>>, shape |-> [kind |-> "route"]])
       IN  IF routeId \notin RouteKeys
           THEN serverRequests' = answered(arrived, n, 400, "routeId must be P2P_EXPRESS or BAITY_HILL")
           ELSE IF routeCacheFresh(routeCache[routeId], serverClock)
                THEN serverRequests' = answered(arrived, n, 200, routeCache[routeId].payload)
                ELSE serverRequests' = [arrived EXCEPT ![n].state = "upstream",
                                                        ![n].upstream = TRUE]
    /\ UNCHANGED <<serverClock, routeCache, lastFetched>>
    /\ UNCHANGED <<mapboxToken, summaryCache, walkCache>>
    /\ UNCHANGED outsideServer

\* fetchMapboxRoute resolves for the request numbered n
routeUpstreamSucceeds(n, geometry) ==
    /\ n \in 1..Len(serverRequests)
    /\ serverRequests[n].kind = "route"
    /\ serverRequests[n].state = "upstream"
    /\ mapboxToken
    /\ LET routeId == serverRequests[n].routeId
           payload == [routeId |-> routeId, geometry |-> geometry]
       IN  /\ routeCache' = [routeCache EXCEPT ![routeId] = [payload |-> payload, at |-> serverClock]]
           /\ lastFetched' = [lastFetched EXCEPT ![routeId] = [payload |-> payload, at |-> serverClock]]
           /\ serverRequests' = answered(serverRequests, n, 200, payload)
    /\ UNCHANGED serverClock
    /\ UNCHANGED <<mapboxToken, summaryCache, walkCache>>
    /\ UNCHANGED outsideServer

\* fetchMapboxRoute throws for the request numbered n: no token, a status
\* that is not OK, or an answer without a geometry
routeUpstreamFails(n) ==
    /\ n \in 1..Len(serverRequests)
    /\ serverRequests[n].kind = "route"
    /\ serverRequests[n].state = "upstream"
    /\ serverRequests' = answered(serverRequests, n, 500, "error")
    /\ UNCHANGED <<serverClock, routeCache, lastFetched>>
    /\ UNCHANGED <<mapboxToken, summaryCache, walkCache>>
    /\ UNCHANGED outsideServer

\* Date.now() moves on
serverTimePasses ==
    /\ serverClock < MaxClockSteps * ClockStepMs
    /\ serverClock' = serverClock + ClockStepMs
    /\ UNCHANGED <<routeCache, serverRequests, lastFetched>>
    /\ UNCHANGED <<mapboxToken, summaryCache, walkCache>>
    /\ UNCHANGED outsideServer

ServerNext ==
    \/ \E routeId \in RouteParams : receiveRouteRequest(routeId)
    \/ \E n \in 1..MaxRequests : \E geometry \in UpstreamGeometries :
           routeUpstreamSucceeds(n, geometry)
    \/ \E n \in 1..MaxRequests : routeUpstreamFails(n)
    \/ serverTimePasses


(***************************************************************************)
(* MapboxMap: the effect that flies to the rider once                      *)
(***************************************************************************)

\* the two versions of the component: the one with the route lines, and the
\* one with the GeoJSON sources
FlyVersions == { "routeLine", "geoJsonSource" }

\* the dependency list of the fly-to-user effect
flyEffectDeps(version) ==
    IF version = "routeLine"
    THEN { "mapReady", "userLocationResolved", "userLocation", "enable3D" }
    ELSE { "userLocationResolved", "userLocation", "enable3D" }

FlyInit ==
    /\ flyVersion \in FlyVersions
    /\ mapLoaded = FALSE
    /\ userLocationResolved = FALSE
    /\ flyLocation = DEFAULT_LOCATION
    /\ enable3D \in BOOLEAN
    /\ flownToUser = FALSE
    /\ flights = <<>>

\* the fly-to-user effect after a render in which the values named in
\* changed differ from the render before
flyEffect(changed) ==
    IF /\ changed \cap flyEffectDeps(flyVersion) # {}
       /\ mapLoaded' /\ userLocationResolved' /\ ~flownToUser
    THEN /\ flownToUser' = TRUE
         /\ flights' = Append(flights, [center |-> <<flyLocation'.lon, flyLocation'.lat>>,
                                        pitched |-> enable3D'])
    ELSE UNCHANGED <<flownToUser, flights>>

\* the 'load' event of the map: setMapReady(true)
flyMapLoads ==
    /\ ~mapLoaded
    /\ mapLoaded' = TRUE
    /\ UNCHANGED <<flyVersion, userLocationResolved, flyLocation, enable3D>>
    /\ flyEffect({"mapReady"})
    /\ UNCHANGED outsideFly

\* getCurrentPosition succeeds: setUserLocation, setLoadingLoc(false)
geolocationSucceeds(position) ==
    /\ ~userLocationResolved
    /\ userLocationResolved' = TRUE
    /\ flyLocation' = position
    /\ UNCHANGED <<flyVersion, mapLoaded, enable3D>>
    /\ flyEffect({"userLocationResolved", "userLocation"})
    /\ UNCHANGED outsideFly

\* getCurrentPosition fails, or there is no geolocation: setLoadingLoc(false)
geolocationFails ==
    /\ ~userLocationResolved
    /\ userLocationResolved' = TRUE
    /\ UNCHANGED <<flyVersion, mapLoaded, flyLocation, enable3D>>
    /\ flyEffect({"userLocationResolved"})
    /\ UNCHANGED outsideFly

\* the 3D button of MapView
toggle3D ==
    /\ enable3D' = ~enable3D
    /\ UNCHANGED <<flyVersion, mapLoaded, userLocationResolved, flyLocation>>
    /\ flyEffect({"enable3D"})
    /\ UNCHANGED outsideFly

FlyNext ==
    \/ flyMapLoads
    \/ \E position \in Places : geolocationSucceeds(position)
    \/ geolocationFails
    \/ toggle3D

\* how many requests other than route requests the server is followed for
MaxOtherRequests == 2

CACHE_TTL_MS == 60000

WALK_CACHE_TTL_MS == 900000

\* the requests other than those for /api/mapbox/route: method and url, and
\* for the three endpoints with parameters the shapes these can have
OtherRequests ==
    { [kind |-> "options"], [kind |-> "healthz"], [kind |-> "root"], [kind |-> "other"] }
    \cup { [kind |-> "summary", body |-> b] :
             b \in { "invalidJson", "empty", "complaintsArray", "complaintsNotArray" } }
    \cup { [kind |-> "geocode", q |-> q] : q \in { "", "abc" } }
    \cup { [kind |-> "walk", params |-> p] : p \in { "missing", "malformed", "ok" } }

\* the server as started, with or without MAPBOX_TOKEN
HttpInit ==
    /\ serverClock = 0
    /\ routeCache = [r \in RouteKeys |-> Null]
    /\ serverRequests = <<>>
    /\ lastFetched = [r \in RouteKeys |-> Null]
    /\ mapboxToken \in BOOLEAN
    /\ summaryCache = Null
    /\ walkCache = Null

\* hashComplaints(body?.complaints ?? [])
hashComplaints(body) == IF body = "empty" THEN "hash of []" ELSE "hash of the complaints"

\* the request numbered n waits for an upstream call
awaiting(requests, n) ==
    [requests EXCEPT ![n].state = "upstream", ![n].upstream = TRUE]

\* the request numbered n is left with a rejected promise nobody handles
rejected(requests, n) == [requests EXCEPT ![n].state = "unhandledRejection"]

\* the http.createServer handler, for a request other than a route request;
\* for the summary the body has been read to its end
receiveRequest(req) ==
    /\ Len(serverRequests) < MaxOtherRequests
    /\ LET n == Len(serverRequests) + 1
           arrived == Append(serverRequests,
                             [kind |-> req.kind, routeId |-> "", state |-> "received",
                              upstream |-> FALSE,
                              responses |-> <<>>, shape |-> req])
       IN  serverRequests' =
             IF req.kind = "options" THEN answered(arrived, n, 204, "")
             ELSE IF req.kind \in {"healthz", "root"} THEN answered(arrived, n, 200, "ok")
             ELSE IF req.kind = "summary"
                  THEN IF req.body = "invalidJson"
                       THEN answered(arrived, n, 400, "Invalid JSON body")
                       ELSE IF req.body = "complaintsNotArray"
                            THEN rejected(arrived, n)
                            ELSE IF /\ summaryCache # Null
                                    /\ summaryCache.key = hashComplaints(req.body)
                                    /\ serverClock - summaryCache.generatedAt < CACHE_TTL_MS
                                 THEN answered(arrived, n, 200, "summary")
                                 ELSE awaiting(arrived, n)
             ELSE IF req.kind = "geocode"
                  THEN IF ~mapboxToken
                       THEN answered(arrived, n, 500, "MAPBOX_TOKEN is not set")
                       ELSE IF req.q = ""
                            THEN answered(arrived, n, 400, "Missing q query parameter")
                            ELSE awaiting(arrived, n)
             ELSE IF req.kind = "walk"
                  THEN IF req.params = "missing"
                       THEN answered(arrived, n, 400, "Missing from or to (lng,lat)")
                       ELSE IF req.params = "malformed"
                            THEN answered(arrived, n, 400, "from and to must be lng,lat")
                            ELSE IF /\ walkCache # Null
                                    /\ serverClock - walkCache.at < WALK_CACHE_TTL_MS
                                 THEN answered(arrived, n, 200, "walk")
                                 ELSE awaiting(arrived, n)
             ELSE answered(arrived, n, 404, "")
    /\ UNCHANGED <<serverClock, routeCache, lastFetched, mapboxToken, summaryCache, walkCache>>
    /\ UNCHANGED outsideServer

\* the upstream call of a summary, geocode or walk request resolves
upstreamSucceeds(n) ==
    /\ n \in 1..Len(serverRequests)
    /\ serverRequests[n].kind \in {"summary", "geocode", "walk"}
    /\ serverRequests[n].state = "upstream"
    /\ serverRequests[n].kind \in {"geocode", "walk"} => mapboxToken
    /\ serverRequests' = answered(serverRequests, n, 200, serverRequests[n].kind)
    /\ summaryCache' = IF serverRequests[n].kind = "summary"
                       THEN [key |-> hashComplaints(serverRequests[n].shape.body),
                             generatedAt |-> serverClock]
                       ELSE summaryCache
    /\ walkCache' = IF serverRequests[n].kind = "walk" THEN [at |-> serverClock]
                    ELSE walkCache
    /\ UNCHANGED <<serverClock, routeCache, lastFetched, mapboxToken>>
    /\ UNCHANGED outsideServer

\* the upstream call of a summary, geocode or walk request throws or rejects
upstreamFails(n) ==
    /\ n \in 1..Len(serverRequests)
    /\ serverRequests[n].kind \in {"summary", "geocode", "walk"}
    /\ serverRequests[n].state = "upstream"
    /\ serverRequests' = answered(serverRequests, n, 500, "error")
    /\ UNCHANGED <<serverClock, routeCache, lastFetched, mapboxToken, summaryCache, walkCache>>
    /\ UNCHANGED outsideServer

HttpNext ==
    \/ \E req \in OtherRequests : receiveRequest(req)
    \/ \E n \in 1..MaxRequests : upstreamSucceeds(n)
    \/ \E n \in 1..MaxRequests : upstreamFails(n)
    \/ \E routeId \in RouteParams : receiveRouteRequest(routeId)
    \/ \E n \in 1..MaxRequests : routeUpstreamSucceeds(n, "geometryA")
    \/ \E n \in 1..MaxRequests : routeUpstreamFails(n)
    \/ serverTimePasses

vars == <<journeyVars, geocodeVars, recentVars, interpVars, mapVars, geoVars, routeVars,
          busVars, stopVars, viewVars, serverVars, flyVars>>

InitJourney == JourneyInit /\ GeocodeInit /\ RecentIdle /\ InterpInit /\ MapInit /\ GeoInit
                 /\ RouteInit /\ BusesInit /\ StopsInit /\ ViewInit /\ ServerInit /\ FlyInit

InitGeocode == JourneyIdle /\ GeocodeInit /\ RecentIdle /\ InterpInit /\ MapInit /\ GeoInit
                 /\ RouteInit /\ BusesInit /\ StopsInit /\ ViewInit /\ ServerInit /\ FlyInit

InitRecent == JourneyIdle /\ GeocodeInit /\ RecentInit /\ InterpInit /\ MapInit /\ GeoInit
                 /\ RouteInit /\ BusesInit /\ StopsInit /\ ViewInit /\ ServerInit /\ FlyInit

InitInterp == JourneyIdle /\ GeocodeInit /\ RecentIdle /\ InterpInit /\ MapInit /\ GeoInit
                 /\ RouteInit /\ BusesInit /\ StopsInit /\ ViewInit /\ ServerInit /\ FlyInit

InitGeo == JourneyIdle /\ GeocodeInit /\ RecentIdle /\ InterpInit /\ MapInit /\ GeoInit
                 /\ RouteInit /\ BusesInit /\ StopsInit /\ ViewInit /\ ServerInit /\ FlyInit

InitRoute == JourneyIdle /\ GeocodeInit /\ RecentIdle /\ InterpInit /\ MapInit /\ GeoInit
                 /\ RouteInit /\ BusesInit /\ StopsInit /\ ViewInit /\ ServerInit /\ FlyInit

InitBuses == JourneyIdle /\ GeocodeInit /\ RecentIdle /\ InterpInit /\ MapInit /\ GeoInit
                 /\ RouteInit /\ BusesInit /\ StopsInit /\ ViewInit /\ ServerInit /\ FlyInit

InitStops == JourneyIdle /\ GeocodeInit /\ RecentIdle /\ InterpInit /\ MapInit /\ GeoInit
                 /\ RouteInit /\ BusesInit /\ StopsInit /\ ViewInit /\ ServerInit /\ FlyInit

InitMap == JourneyIdle /\ GeocodeInit /\ RecentIdle /\ InterpInit /\ MapInit /\ GeoInit
                 /\ RouteInit /\ BusesInit /\ StopsInit /\ ViewInit /\ ServerInit /\ FlyInit

InitView == JourneyIdle /\ GeocodeInit /\ RecentIdle /\ InterpInit /\ MapInit /\ GeoInit
                 /\ RouteInit /\ BusesInit /\ StopsInit /\ ViewInit /\ ServerInit /\ FlyInit

InitServer == JourneyIdle /\ GeocodeInit /\ RecentIdle /\ InterpInit /\ MapInit /\ GeoInit
                 /\ RouteInit /\ BusesInit /\ StopsInit /\ ViewInit /\ ServerInit /\ FlyInit

InitHttp == JourneyIdle /\ GeocodeInit /\ RecentIdle /\ InterpInit /\ MapInit /\ GeoInit
                 /\ RouteInit /\ BusesInit /\ StopsInit /\ ViewInit /\ HttpInit /\ FlyInit

InitFly == JourneyIdle /\ GeocodeInit /\ RecentIdle /\ InterpInit /\ MapInit /\ GeoInit
                 /\ RouteInit /\ BusesInit /\ StopsInit /\ ViewInit /\ ServerInit /\ FlyInit

SpecJourney == InitJourney /\ [][JourneyNext]_vars

SpecGeocode == InitGeocode /\ [][GeocodeNext]_vars

SpecRecent == InitRecent /\ [][RecentNext]_vars

SpecInterp == InitInterp /\ [][InterpNext]_vars

SpecMap == InitMap /\ [][MapNext]_vars

SpecSlice == InitMap /\ [][SliceNext]_vars

SpecGeo == InitGeo /\ [][GeoNext]_vars

SpecRoute == InitRoute /\ [][RouteNext]_vars

SpecBuses == InitBuses /\ [][BusesNext]_vars

SpecStops == InitStops /\ [][StopsNext]_vars

SpecView == InitView /\ [][ViewNext]_vars

SpecServer == InitServer /\ [][ServerNext]_vars

SpecHttp == InitHttp /\ [][HttpNext]_vars

SpecFly == InitFly /\ [][FlyNext]_vars

(***************************************************************************)
(* Properties of calculateJourney                                          *)
(***************************************************************************)

Returned == lastCall.called /\ ~lastCall.result.threw

Segs == lastCall.result.value.segments

\* The stops calculateJourney found for the last call.
CallOriginStop == findNearestStop(lastCall.origin, lastCall.stops)
CallDestStop   == findNearestStop(lastCall.destination, lastCall.stops)

CallStopsClose ==
    \/ CallOriginStop.id = CallDestStop.id
    \/ getDistanceMeters(CallOriginStop, CallDestStop) < 200000

\* C1: in every returned Journey each segment's toCoords is the next
\* segment's fromCoords, the first segment starts at the origin given and the
\* last one ends at the destination.
C1_Continuity ==
    Returned =>
        /\ Len(Segs) >= 1
        /\ \A i \in 1..(Len(Segs) - 1) : Segs[i].toCoords = Segs[i + 1].fromCoords
        /\ Segs[1].fromCoords = lastCall.origin
        /\ Segs[Len(Segs)].toCoords = Coord(lastCall.destination)

C1_Witness == Returned /\ Len(Segs) = 3 /\ Segs[1].fromCoords # Segs[1].toCoords

C1_WitnessOneSegment == Returned /\ Len(Segs) = 1 /\ lastCall.origin # DEFAULT_LOCATION

\* C2: totalDurationMin of a returned Journey is the sum over its segments
\* of durationMin plus waitTimeMin, the latter 0 where the field is absent.
C2_DurationAdditive ==
    Returned =>
        LET cost(i) == Segs[i].durationMin
                       + (IF "waitTimeMin" \in DOMAIN Segs[i] THEN Segs[i].waitTimeMin ELSE 0)
        IN  lastCall.result.value.totalDurationMin =
                (IF Len(Segs) >= 1 THEN cost(1) ELSE 0)
              + (IF Len(Segs) >= 2 THEN cost(2) ELSE 0)
              + (IF Len(Segs) >= 3 THEN cost(3) ELSE 0)

C2_Witness ==
    /\ Returned
    /\ Len(Segs) = 3
    /\ \E i \in 1..3 : "waitTimeMin" \in DOMAIN Segs[i] /\ Segs[i].waitTimeMin > 0
    /\ Segs[1].durationMin > 0

\* C3: when the stop nearest the origin and the stop nearest the destination
\* are the same stop or less than 200 m apart, the Journey is one walk
\* segment from the raw origin to the raw destination.
C3_WalkCollapse ==
    (Returned /\ CallStopsClose) =>
        /\ Len(Segs) = 1
        /\ Segs[1].type = "walk"
        /\ Segs[1].fromCoords = lastCall.origin
        /\ Segs[1].toCoords = Coord(lastCall.destination)

\* two different stops less than 200 m apart, and neither endpoint at a stop's
\* own coordinates on the far side
C3_Witness ==
    /\ Returned
    /\ CallOriginStop.id # CallDestStop.id
    /\ getDistanceMeters(CallOriginStop, CallDestStop) < 200000
    /\ Coord(lastCall.destination) # Coord(CallDestStop)

C3_WitnessSameStop ==
    /\ Returned
    /\ CallOriginStop.id = CallDestStop.id
    /\ Len(lastCall.stops) > 1
    /\ lastCall.origin # Coord(lastCall.destination)

\* C4: when the two nearest stops differ and are at least 200 m apart, the
\* Journey is walk, bus, walk, the names chain across the segments and the
\* total duration is positive.
C4_WalkBusWalk ==
    (Returned /\ ~CallStopsClose) =>
        /\ Len(Segs) = 3
        /\ <<Segs[1].type, Segs[2].type, Segs[3].type>> = <<"walk", "bus", "walk">>
        /\ Segs[1].toName = Segs[2].fromName
        /\ Segs[2].toName = Segs[3].fromName
        /\ lastCall.result.value.totalDurationMin > 0

\* the spec's scenario: Student Union to the Dean Smith Center
C4_Witness ==
    /\ Returned
    /\ ~CallStopsClose
    /\ lastCall.origin = [lat |-> 359105, lon |-> -790478]
    /\ lastCall.destination.id = "dean"
    /\ Len(lastCall.stops) = Len(STOPS)

\* C5: with an empty stop list calculateJourney throws and returns no
\* Journey; the view shows the alert and keeps what it displayed.
C5_EmptyStopsThrows ==
    (lastCall.called /\ lastCall.stops = <<>>) =>
        /\ lastCall.result.threw
        /\ lastCall.result.message = "Could not find transit stops"
        /\ journey = Null
        /\ activeJourney = Null
        /\ alertMsg = "Could not calculate route"

C5_Witness == lastCall.called /\ lastCall.stops = <<>> /\ lastCall.result.threw

\* C6 (as claimed): no returned Journey has a bus segment when walking
\* straight from origin to destination takes no longer than the Journey's
\* totalDurationMin.
C6_NoBusWhenWalkNotSlower ==
    (Returned /\ \E i \in 1..Len(Segs) : Segs[i].type = "bus") =>
        getWalkTimeMinutes(getDistanceMeters(lastCall.origin, lastCall.destination))
            > lastCall.result.value.totalDurationMin

(***************************************************************************)
(* Properties of the address search                                        *)
(***************************************************************************)

\* C7: whatever the interleaving of edits, timer firings and responses,
\* results are applied to the view only for the query current at the time
\* they are applied: a response of a superseded request never changes
\* addressResults.
C7_OnlyCurrentQueryApplied ==
    [][ (addressResults' # addressResults /\ addressResults' # <<>>) =>
            \A i \in 1..Len(addressResults') :
                addressResults'[i].q = Trim(query') ]_vars

\* results of "abc" are on display, "abcd" has superseded it, and the request
\* for "abc" made before is still in flight, aborted
C7_Witness ==
    /\ addressResults # <<>>
    /\ \E f \in fetches : f.aborted /\ f.q # Trim(query)
    /\ \E f \in fetches : ~f.aborted /\ f.q = Trim(query)

(***************************************************************************)
(* Properties of the recent-searches store                                 *)
(***************************************************************************)

\* the (label, address) pair as normalised: trimmed and lower-cased
NormPair(item) ==
    <<ToLowerCase(Trim(item.label)), ToLowerCase(Trim(item.address))>>

StoredList == storage

JustAdded == lastOp.op = "add"

\* the call just made was a second call for its pair: an entry for the pair
\* was stored before it
AddedAgain ==
    /\ JustAdded
    /\ \E i \in 1..Len(lastOp.before) : NormPair(lastOp.before[i]) = NormPair(lastOp.item)

C9_WitnessExpired ==
    /\ lastOp.op = "get"
    /\ Len(lastOp.returned) < Len(StoredList)
    /\ \E i \in 1..Len(StoredList) : lastOp.at - StoredList[i].timestamp > 14

(***************************************************************************)
(* Properties of the route interpolator                                    *)
(***************************************************************************)

HasRoute == interpolator # Null /\ interpolator.totalLengthMeters > 0

\* C10: for an interpolator of total length L > 0, pointAt(d) and
\* pointAt(d + L) are the same point for every distance d, negative ones
\* included.
C10_Periodic ==
    HasRoute =>
        \A d \in Distances(interpolator) :
            pointAt(interpolator, d) =
                pointAt(interpolator, d + interpolator.totalLengthMeters)

\* pointAt was asked a negative distance and answered a point inside a
\* segment
C10_Witness ==
    /\ HasRoute
    /\ lastPoint # Null
    /\ lastPoint.distMeters < 0
    /\ lastPoint.point.num > 0
    /\ lastPoint.point.num < lastPoint.point.den

\* the interpolator in hand was built for an open polyline and asked L
AskedRouteLength ==
    /\ HasRoute
    /\ lastPoint # Null
    /\ lastPoint.distMeters = interpolator.totalLengthMeters
    /\ interpolator.c[1] # interpolator.c[Len(interpolator.c)]

\* C11 (as amended): for an interpolator of total length L > 0, pointAt(0)
\* and pointAt(L) both return the first polyline vertex, without
\* interpolation: L wraps to 0.
C11_EndpointsWrapToFirst ==
    HasRoute =>
        /\ pointAt(interpolator, 0) = Vertex(interpolator.c[1])
        /\ pointAt(interpolator, interpolator.totalLengthMeters)
               = Vertex(interpolator.c[1])

\* pointAt(L) was asked on an open polyline and answered the first vertex
C11_Witness ==
    /\ AskedRouteLength
    /\ lastPoint.point = Vertex(interpolator.c[1])

\* C11 (as claimed): pointAt(0) returns the first polyline vertex and
\* pointAt(L) returns the last polyline vertex, both without interpolation.
C11_EndpointsFirstAndLast ==
    HasRoute =>
        /\ pointAt(interpolator, 0) = Vertex(interpolator.c[1])
        /\ pointAt(interpolator, interpolator.totalLengthMeters)
               = Vertex(interpolator.c[Len(interpolator.c)])

\* C12: there is one cache entry per distinct route geometry, and the
\* interpolator returned for a polyline answers from that polyline's own
\* vertices and cumulative distances: two different geometries never share
\* a cached entry.
C12_OneEntryPerGeometry ==
    /\ \A e1, e2 \in cache : e1.entry.coords = e2.entry.coords => e1 = e2
    /\ interpolator # Null =>
           /\ interpolator.c = requested
           /\ interpolator.cumul = cumulativeDistances(requested)
           /\ \E e \in cache : e.entry.coords = requested

(***************************************************************************)
(* Properties of journeyToMapSources                                       *)
(***************************************************************************)

\* the vertex v of the line is as near to the point p as any vertex is
NearestVertex(line, v, p) ==
    \A k \in 1..Len(line) : dist2(v, p) <= dist2(line[k], p)

\* C13: sliceRouteLine(line, A, B) and sliceRouteLine(line, B, A) have equal
\* length and are exact reverses of each other, and the A-to-B slice starts
\* at the vertex nearest A and ends at the vertex nearest B.
C13_SliceReverses ==
    lastSlice # Null =>
        LET ab == lastSlice.returned
            ba == sliceRouteLine(lastSlice.line, lastSlice.to, lastSlice.from)
        IN  /\ Len(ab) = Len(ba)
            /\ ba = Reverse(ab)
            /\ Len(ab) >= 1
            /\ NearestVertex(lastSlice.line, ab[1], lastSlice.from)
            /\ NearestVertex(lastSlice.line, ab[Len(ab)], lastSlice.to)

\* a slice was taken against the direction of the line, over several vertices
C13_Witness ==
    /\ lastSlice # Null
    /\ closestIndex(lastSlice.line, lastSlice.from)
           > closestIndex(lastSlice.line, lastSlice.to) + 1
    /\ lastSlice.returned[1] # lastSlice.returned[Len(lastSlice.returned)]

NoJourney(j) == j = Null \/ Len(j.segments) = 0

\* C14 (as amended): for a null journey or one with zero segments,
\* journeyToMapSources returns non-null, empty feature collections for the
\* walk and bus sources and null for the destination source; the map's
\* source update passes an empty collection in place of that null, so every
\* journey source is given a non-null, empty collection by setData.
C14_EmptySourcesNullDestination ==
    (mapSources # Null /\ NoJourney(mapSources.journey)) =>
        /\ mapSources.returned.walkGeoJson = emptyFC
        /\ mapSources.returned.busGeoJson = emptyFC
        /\ mapSources.returned.destinationGeoJson = Null
        /\ sourceData.walk = emptyFC
        /\ sourceData.bus = emptyFC
        /\ sourceData.destination = emptyFC

\* the sources were updated for a journey without segments
C14_Witness ==
    /\ mapSources # Null
    /\ mapSources.journey # Null
    /\ Len(mapSources.journey.segments) = 0
    /\ sourceData.destination = emptyFC

\* C14 (as claimed): for a null journey or one with zero segments,
\* journeyToMapSources returns non-null, empty feature collections for the
\* walk, bus and destination sources.
C14_AllSourcesEmptyCollections ==
    (mapSources # Null /\ NoJourney(mapSources.journey)) =>
        /\ mapSources.returned.walkGeoJson = emptyFC
        /\ mapSources.returned.busGeoJson = emptyFC
        /\ mapSources.returned.destinationGeoJson = emptyFC

(***************************************************************************)
(* Properties of utils/geo                                                 *)
(***************************************************************************)

NearestCalled == lastGeo.op = "findNearestStop"

\* C15: findNearestStop returns null for an empty stop list, and otherwise
\* the stop at the smallest index among those of least distance to the
\* point: the first minimum wins on ties.
C15_FirstNearestStop ==
    NearestCalled =>
        LET list == lastGeo.stops
            dist(k) == getDistanceMeters(lastGeo.point, list[k])
        IN  IF Len(list) = 0
            THEN lastGeo.returned = Null
            ELSE \E i \in 1..Len(list) :
                    /\ lastGeo.returned = list[i]
                    /\ \A k \in 1..Len(list) : dist(i) <= dist(k)
                    /\ \A k \in 1..(i - 1) : dist(k) > dist(i)

\* findNearestStop chose among two stops at the same least distance, the
\* first of them not being the first of the list
C15_Witness ==
    /\ NearestCalled
    /\ Len(lastGeo.stops) > 1
    /\ lastGeo.returned # lastGeo.stops[1]
    /\ \E i, k \in 1..Len(lastGeo.stops) :
           /\ i < k
           /\ lastGeo.returned = lastGeo.stops[i]
           /\ lastGeo.stops[k] # lastGeo.stops[i]
           /\ getDistanceMeters(lastGeo.point, lastGeo.stops[k])
                  = getDistanceMeters(lastGeo.point, lastGeo.stops[i])

WalkTimeCalled == lastGeo.op = "getWalkTimeMinutes"

\* C16: getWalkTimeMinutes(d) is a non-negative integer for every d >= 0:
\* 0 for d = 0, at least 1 for every d > 0 (the ceiling of d / 1.4 / 60:
\* the least number of minutes in which d is walked at 84 m a minute), and
\* non-decreasing in d.
C16_WalkTimeCeiling ==
    WalkTimeCalled =>
        LET d == lastGeo.distance
            r == lastGeo.returned
        IN  /\ r \in Nat
            /\ d = 0 => r = 0
            /\ d > 0 => r >= 1
            /\ r * 84000 >= d
            /\ r > 0 => (r - 1) * 84000 < d
            /\ \A d2 \in WalkDistances :
                   d <= d2 => r <= getWalkTimeMinutes(d2)

\* a distance of less than a minute, but not zero, was asked
C16_Witness ==
    /\ WalkTimeCalled
    /\ lastGeo.distance > 0
    /\ lastGeo.distance < 84000
    /\ lastGeo.returned = 1

(***************************************************************************)
(* Properties of PlanTripView                                              *)
(***************************************************************************)

\* C18: when the route computation awaited after a selection rejects, the
\* step that handles it alerts 'Could not calculate route', leaves the
\* displayed journey and the parent's active journey as they were and
\* clears the loading flag with nothing left awaited, so that the
\* destination list is on screen again for another selection.
C18_RouteFailureReported ==
    [][ (routeSettled' # routeSettled /\ routeSettled' # Null /\ routeSettled'.rejected) =>
            /\ alertMsg' = "Could not calculate route"
            /\ journey' = journey
            /\ activeJourney' = activeJourney
            /\ routingLoading' = FALSE
            /\ routeRequest' = Null ]_vars

\* after a reported failure another destination was selected and its route
\* is awaited
C18_Witness ==
    /\ alertMsg = "Could not calculate route"
    /\ routingLoading
    /\ routeRequest # Null
    /\ journey = Null

\* a request that was not aborted failed
SettledFailed(s) ==
    /\ s # Null
    /\ ~s.request.aborted
    /\ s.outcome \in {"notOk", "networkError"}

\* C19: when a geocode request fails with a non-OK status or a network
\* error, the step that handles it makes the address results the empty list
\* and alerts nothing; when the request was aborted by a newer run of the
\* effect, the step leaves the results alone and alerts nothing.
C19_GeocodeFailureIsEmptyList ==
    [][ (lastSettle' # lastSettle /\ lastSettle' # Null) =>
            /\ alertMsg' = alertMsg
            /\ SettledFailed(lastSettle') => addressResults' = <<>>
            /\ lastSettle'.request.aborted => addressResults' = addressResults ]_vars

\* a request that was not aborted failed while results were shown, and the
\* list is empty
C19_Witness ==
    /\ SettledFailed(lastSettle)
    /\ lastSettle.before # <<>>
    /\ addressResults = <<>>

\* the k-th vehicle as it is in the list, not snapped to a route
RawPosition(k) ==
    [id |-> VEHICLES[k].id, routeId |-> VEHICLES[k].routeId,
     at |-> [lon |-> VEHICLES[k].lon, lat |-> VEHICLES[k].lat],
     bearing |-> [degrees |-> VEHICLES[k].heading]]

\* C17: createRouteInterpolator returns null for every polyline of fewer than
\* two points, and after every tick the buses source holds one position per
\* vehicle, in the order of the list, where a vehicle whose route had no
\* interpolator at that tick is at its own lon/lat with its own heading.
C17_NoInterpolatorRawPosition ==
    /\ \A r \in RouteKeys : \A coords \in RouteAnswers(r) :
           Len(coords) < 2 => interpolatorFrom(cache, coords).returned = Null
    /\ \A r \in RouteKeys : Len(routeGeoms[r]) = 1 => interpolators[r] = Null
    /\ lastTick # Null =>
           /\ Len(positions) = Len(VEHICLES)
           /\ \A k \in 1..Len(VEHICLES) :
                  /\ positions[k].id = VEHICLES[k].id
                  /\ ~lastTick.had[routeIdToKey(VEHICLES[k].routeId)] =>
                         positions[k] = RawPosition(k)

\* a tick ran while the P2P Express answer was a single point and Baity Hill
\* had its interpolator: the two P2P buses are raw, the Baity Hill bus is snapped
C17_Witness ==
    /\ lastTick # Null
    /\ Len(routeGeoms["P2P_EXPRESS"]) = 1
    /\ ~lastTick.had["P2P_EXPRESS"]
    /\ lastTick.had["BAITY_HILL"]
    /\ positions[1] = RawPosition(1)
    /\ positions[3] = RawPosition(3)
    /\ positions[2] # RawPosition(2)

\* C20: along each of the two per-route stop lists the order field is strictly
\* increasing, so that the stops drawn in each stop source, feature by feature,
\* follow the route.
C20_OrderStrictlyIncreasing ==
    /\ \A k \in 1..(Len(P2P_EXPRESS_STOPS) - 1) :
           P2P_EXPRESS_STOPS[k].order < P2P_EXPRESS_STOPS[k + 1].order
    /\ \A k \in 1..(Len(BAITY_HILL_STOPS) - 1) :
           BAITY_HILL_STOPS[k].order < BAITY_HILL_STOPS[k + 1].order
    /\ \A k \in 1..(Len(stopSources.express) - 1) :
           \A a, b \in 1..Len(P2P_EXPRESS_STOPS) :
               /\ P2P_EXPRESS_STOPS[a].id = stopSources.express[k].id
               /\ P2P_EXPRESS_STOPS[b].id = stopSources.express[k + 1].id
               => P2P_EXPRESS_STOPS[a].order < P2P_EXPRESS_STOPS[b].order

\* the first bus segment of the journey rendered, Null when it has none
RenderedBus == findSegment(resultView.journey.segments, FALSE)

\* the first walk segment of the journey rendered, Null when it has none
RenderedWalk == findSegment(resultView.journey.segments, TRUE)

\* C21: in the result view of a journey with a bus segment that has a wait
\* estimate and with a walk segment, the leave-by time is now + wait - 90 s,
\* 'Leave now' is shown exactly when the wait is at most 90 s and the clock
\* time of the leave-by time otherwise; with a bus segment without a wait
\* estimate no leave-by time is shown and the walking-only notice is.
C21_LeaveBy ==
    (resultView # Null /\ RenderedBus # Null) =>
        IF "waitTimeMin" \in DOMAIN RenderedBus
        THEN RenderedWalk # Null =>
                LET waitSec == RenderedBus.waitTimeMin * 60
                    at == resultView.now + (waitSec - 90) * 1000
                IN  /\ resultView.leaveAt = [ms |-> at]
                    /\ (waitSec <= 90) <=> (resultView.leaveLine = [text |-> "Leave now"])
                    /\ (waitSec > 90) <=> (resultView.leaveLine = [clock |-> clockTime(at)])
                    /\ ~resultView.walkingOnlyNotice
        ELSE /\ resultView.leaveAt = Null
             /\ resultView.leaveLine = Null
             /\ resultView.walkingOnlyNotice

\* a view with 'Leave now' for a wait of one minute
C21_Witness ==
    /\ resultView # Null
    /\ RenderedBus # Null /\ RenderedWalk # Null
    /\ "waitTimeMin" \in DOMAIN RenderedBus
    /\ RenderedBus.waitTimeMin = 1
    /\ resultView.leaveLine = [text |-> "Leave now"]

\* the distance of the k-th vehicle before a tick: the one kept for it, or
\* the share of the route it starts at when none is kept yet
DistanceBefore(k) ==
    LET v == VEHICLES[k]
        ip == interpolators[routeIdToKey(v.routeId)]
    IN  IF v.id \in DOMAIN busDistMeters THEN busDistMeters[v.id]
        ELSE (ip.totalLengthMeters * IndexOnRoute(v)) \div CountOnRoute(v)

C23_OneTimerAtMost ==
    /\ [](Cardinality(timers) <= 1)
    /\ [](~mounted => timers = {})
    /\ [][lastTick' # lastTick => mounted]_vars

\* the vehicles were refreshed, ticks ran, and the component was unmounted
C23_Witness ==
    /\ ~mounted
    /\ nextTimer > 2
    /\ lastTick # Null
    /\ timers = {}

\* the sub-path of the line from its a-th to its b-th vertex, in that direction
SubPath(line, a, b) ==
    IF a <= b THEN SubSeq(line, a, b) ELSE Reverse(SubSeq(line, b, a))

\* the bus segments of the journey the sources were last computed for
DrawnBusSegments == SelectSeq(mapSources.journey.segments, IsNotWalk)

\* C24: for every bus segment journeyToMapSources emits one bus line of at
\* least two coordinates; when the segment's route has a curated polyline the
\* line is the sub-path of that polyline from the vertex nearest the boarding
\* stop to the vertex nearest the alighting stop, and the straight line from
\* stop to stop when the two vertices are the same.
C24_BusLineFollowsRoute ==
    (mapSources # Null /\ ~NoJourney(mapSources.journey)) =>
        LET fs == mapSources.returned.busGeoJson.features
        IN  /\ Len(fs) = Len(DrawnBusSegments)
            /\ \A n \in 1..Len(fs) :
                  LET seg == DrawnBusSegments[n]
                      drawn == fs[n].geometry.coordinates
                      line == routePolyline(IF "routeId" \in DOMAIN seg
                                            THEN seg.routeId ELSE "p2p-express")
                      straight == << <<seg.fromCoords.lon, seg.fromCoords.lat>>,
                                     <<seg.toCoords.lon, seg.toCoords.lat>> >>
                  IN  /\ Len(drawn) >= 2
                      /\ line # Null =>
                            \E a, b \in 1..Len(line) :
                                /\ NearestVertex(line, line[a], seg.fromCoords)
                                /\ NearestVertex(line, line[b], seg.toCoords)
                                /\ drawn = IF a = b THEN straight ELSE SubPath(line, a, b)

\* a bus line of three or more vertices was drawn along the polyline
C24_Witness ==
    /\ mapSources # Null
    /\ ~NoJourney(mapSources.journey)
    /\ Len(DrawnBusSegments) >= 1
    /\ Len(mapSources.returned.busGeoJson.features[1].geometry.coordinates) >= 3

\* the request received in this step
Arriving == serverRequests'[Len(serverRequests')]

C26_FliesOnceWhenBothReady ==
    /\ Len(flights) <= 1
    /\ (mapLoaded /\ userLocationResolved) => Len(flights) = 1

\* the request of the live effect is waiting for its timer or for its answer
CurrentGeocodePending ==
    \/ geocodeTimer # Null
    \/ \E f \in fetches : f.ctl = effectCtl /\ ~f.aborted

\* the line 'No address results.' is rendered
NoAddressResultsShown ==
    addressResults = <<>> /\ ~geocodeLoading /\ Len(Trim(query)) >= 3

\* C27: while the geocode request for the current query is debouncing or in
\* flight, geocodeLoading is true, so 'No address results.' is not shown.
C27_LoadingWhilePending ==
    CurrentGeocodePending => (geocodeLoading /\ ~NoAddressResultsShown)

\* C28: every request the server accepted has at most one response, and has
\* exactly one unless it still waits for an upstream call.
C28_ExactlyOneResponse ==
    \A n \in 1..Len(serverRequests) :
        /\ Len(serverRequests[n].responses) <= 1
        /\ serverRequests[n].state # "upstream" => Len(serverRequests[n].responses) = 1

\* the distance of the last pointAt call, brought into [0, L)
AskedOnRoute == wrapDistance(lastPoint.distMeters, interpolator.totalLengthMeters)

\* the segment numbered i brackets d, has positive length, and the point is
\* the one at (d - cumul[i]) / (cumul[i+1] - cumul[i]) of the way along it
Bracketed(ip, i, d, point) ==
    /\ ip.cumul[i] <= d
    /\ d <= ip.cumul[i + 1]
    /\ ip.cumul[i] < ip.cumul[i + 1]
    /\ point = [from |-> ip.c[i], to |-> ip.c[i + 1],
                num |-> d - ip.cumul[i], den |-> ip.cumul[i + 1] - ip.cumul[i]]

\* C29: on a polyline of at least two vertices and positive length, repeated
\* consecutive vertices or not, pointAt at a distance strictly inside the
\* route takes a segment of positive length whose ends bracket the distance:
\* the parameter is in [0,1], the divisor is not zero and the point is on
\* that segment of the polyline.
C29_BracketOfPositiveLength ==
    (/\ lastPoint # Null
     /\ interpolator # Null
     /\ 0 < AskedOnRoute
     /\ AskedOnRoute < interpolator.totalLengthMeters) =>
            /\ \E i \in 1..(Len(interpolator.c) - 1) :
                   Bracketed(interpolator, i, AskedOnRoute, lastPoint.point)
            /\ lastPoint.point.den > 0
            /\ 0 <= lastPoint.point.num
            /\ lastPoint.point.num <= lastPoint.point.den

\* a vertex is repeated in the polyline, and the point asked is past it
C29_Witness ==
    /\ lastPoint # Null
    /\ interpolator # Null
    /\ \E i \in 1..(Len(interpolator.c) - 1) :
           /\ interpolator.c[i] = interpolator.c[i + 1]
           /\ 0 < interpolator.cumul[i]
           /\ interpolator.cumul[i] < AskedOnRoute
           /\ AskedOnRoute < interpolator.totalLengthMeters

\* a vertex is repeated, and the distance asked is exactly where it lies
C29_WitnessAtRepeatedVertex ==
    /\ lastPoint # Null
    /\ interpolator # Null
    /\ \E i \in 1..(Len(interpolator.c) - 1) :
           /\ interpolator.c[i] = interpolator.c[i + 1]
           /\ 0 < interpolator.cumul[i]
           /\ AskedOnRoute = interpolator.cumul[i]
           /\ AskedOnRoute < interpolator.totalLengthMeters

\* the normalised key of an entry: the trimmed, lower-cased label, followed
\* by | and the trimmed, lower-cased address when there is one
NormalizedKey(item) ==
    IF NormPair(item)[2] # <<>>
    THEN NormPair(item)[1] \o <<"|">> \o NormPair(item)[2]
    ELSE NormPair(item)[1]

\* C30: whatever calls of addRecentSearch and clearRecentSearches were made
\* while the clock did not go back, no two stored entries have the same
\* normalised key, the timestamps do not increase from the front of the list
\* to its back, and right after clearRecentSearches getRecentSearches
\* returns the empty list.
C30_UniqueKeysNewestFirst ==
    /\ \A i, j \in 1..Len(storage) :
           i < j =>
               /\ NormalizedKey(storage[i]) # NormalizedKey(storage[j])
               /\ storage[i].timestamp >= storage[j].timestamp
    /\ lastOp.op = "clear" => getRecentSearches(clock) = <<>>

\* an entry stored on an earlier day, under another spelling and further
\* down a list of entries of three different days, was added again
C30_Witness ==
    /\ JustAdded
    /\ Len(storage) >= 3
    /\ storage[1].timestamp > storage[2].timestamp
    /\ storage[2].timestamp > storage[Len(storage)].timestamp
    /\ \E i \in 2..Len(lastOp.before) :
          /\ NormalizedKey(lastOp.before[i]) = NormalizedKey(lastOp.item)
          /\ lastOp.before[i].label # lastOp.item.label

\* a list of several entries was cleared
C30_WitnessCleared ==
    /\ lastOp.op = "clear"
    /\ storage = <<>>
    /\ clock > 0

====
